---- MODULE Spec2Model ----
(***************************************************************************)
(* Model of the RPN interpreter of src/rpn-controller.cpp                  *)
(* (RpnCncController and RpnCncController::Privates).                      *)
(*                                                                         *)
(* Text is modelled by TLA+ strings, a character being a string of length  *)
(* one.  The interpreter is modelled in small steps: one step per call of  *)
(* Privates::eval, the pending calls of user_eval being kept as explicit   *)
(* frames, so that the recursion of user words is part of the state.       *)
(***************************************************************************)
EXTENDS Integers, Sequences, FiniteSets, TLC

(***************************************************************************)
(* Bounds of the model                                                     *)
(***************************************************************************)
MaxCalls == 4
MaxStack == 4
MaxFrames == 3
RunFuel == 40

(***************************************************************************)
(* std::string::npos, the "not found" value of std::string::find.  It is   *)
(* the largest size_t in the program; the model only needs a value that is *)
(* no position of a string.                                                *)
(***************************************************************************)
npos == -1

(***************************************************************************)
(* enum datatype_t; the first four are also the std::variant indices of    *)
(* stacktype_t = std::variant<double, long, std::string, Vec3>.            *)
(***************************************************************************)
st_double == 0
st_integer == 1
st_string == 2
st_vec3 == 3
st_number == 4
st_any == 5

datatype_t == {st_double, st_integer, st_string, st_vec3, st_number, st_any}

(***************************************************************************)
(* A double is [nan, m, e]: the value m / 10^e, or NaN.  m and e are kept  *)
(* normalised (no trailing zero in the fraction).                          *)
(***************************************************************************)
RECURSIVE NormD(_, _)
NormD(m, e) ==
  IF e > 0 /\ m % 10 = 0 THEN NormD(m \div 10, e - 1)
  ELSE [nan |-> FALSE, m |-> m, e |-> e]

NaN == [nan |-> TRUE, m |-> 0, e |-> 0]

(* values of stacktype_t, one constructor per alternative of the variant *)
MkDouble(d) == [index |-> st_double, d |-> d]
MkInteger(n) == [index |-> st_integer, n |-> n]
MkString(s) == [index |-> st_string, s |-> s]
Vec3(xx, yy, zz) == [index |-> st_vec3, x |-> xx, y |-> yy, z |-> zz]

(***************************************************************************)
(* Characters and the C library functions the evaluator uses               *)
(***************************************************************************)
CharAt(s, i) == SubSeq(s, i, i)

Digits == {"0", "1", "2", "3", "4", "5", "6", "7", "8", "9"}

isdigit(c) == c \in Digits

DigitVal(c) ==
  CASE c = "0" -> 0 [] c = "1" -> 1 [] c = "2" -> 2 [] c = "3" -> 3
    [] c = "4" -> 4 [] c = "5" -> 5 [] c = "6" -> 6 [] c = "7" -> 7
    [] c = "8" -> 8 [] c = "9" -> 9
    [] c \in {"a", "A"} -> 10 [] c \in {"b", "B"} -> 11
    [] c \in {"c", "C"} -> 12 [] c \in {"d", "D"} -> 13
    [] c \in {"e", "E"} -> 14 [] c \in {"f", "F"} -> 15
    [] OTHER -> 99

(* std::string::find(delim, 0): the 0-based position of the first delim *)
Find(s, delim) ==
  LET hits == {i \in 1..Len(s) : CharAt(s, i) = delim}
  IN IF hits = {} THEN npos
     ELSE (CHOOSE i \in hits : \A j \in hits : i <= j) - 1

(* the positions of the character c in the string s *)
Positions(s, c) == {i \in 1..Len(s) : SubSeq(s, i, i) = c}

(* the least element of a non-empty set of numbers *)
Least(S) == CHOOSE i \in S : \A j \in S : i <= j

(* the number of leading characters of s that are digits of the base *)
RECURSIVE DigitRun(_, _, _)
DigitRun(s, i, base) ==
  IF i <= Len(s) /\ DigitVal(CharAt(s, i)) < base
  THEN DigitRun(s, i + 1, base) ELSE i - 1

(* the value of the digits s[from..to] in the base *)
RECURSIVE DigitsValue(_, _, _, _, _)
DigitsValue(s, from, to, base, acc) ==
  IF from > to THEN acc
  ELSE DigitsValue(s, from + 1, to, base, acc * base + DigitVal(CharAt(s, from)))

(* strtol as it would be if every word were read in base 10 *)
strtol_base10(word) ==
  DigitsValue(word, 1, DigitRun(word, 1, 10), 10, 0)

(***************************************************************************)
(* strtol(word, nullptr, 0) for a word that starts with a digit: base 16   *)
(* after "0x"/"0X" followed by a hex digit, base 8 after a leading "0",    *)
(* else base 10; the conversion stops at the first character that is no    *)
(* digit of the base.  (Values stay far below LONG_MAX in the model.)      *)
(***************************************************************************)
strtol(word) ==
  IF /\ Len(word) >= 3
     /\ CharAt(word, 1) = "0"
     /\ CharAt(word, 2) \in {"x", "X"}
     /\ DigitVal(CharAt(word, 3)) < 16
  THEN DigitsValue(word, 3, DigitRun(word, 3, 16), 16, 0)
  ELSE IF CharAt(word, 1) = "0"
       THEN DigitsValue(word, 1, DigitRun(word, 1, 8), 8, 0)
       ELSE DigitsValue(word, 1, DigitRun(word, 1, 10), 10, 0)

(* the end of the conversion done by strtol: the position of the last
   character it reads *)
strtol_end(word) ==
  IF /\ Len(word) >= 3
     /\ CharAt(word, 1) = "0"
     /\ CharAt(word, 2) \in {"x", "X"}
     /\ DigitVal(CharAt(word, 3)) < 16
  THEN DigitRun(word, 3, 16)
  ELSE IF CharAt(word, 1) = "0"
       THEN DigitRun(word, 1, 8)
       ELSE DigitRun(word, 1, 10)

(* b to the power n, for n >= 0 *)
RECURSIVE Pow(_, _)
Pow(b, n) == IF n = 0 THEN 1 ELSE b * Pow(b, n - 1)

(***************************************************************************)
(* The parts of a number as strtod reads them.  The mantissa is a run of   *)
(* digits of the base with at most one '.', read from position from: its   *)
(* digits as one integer, the number of digits after the point and the     *)
(* position of its last character.                                         *)
(***************************************************************************)
Mantissa(word, from, base) ==
  LET ie == DigitRun(word, from, base)
      hasPoint == ie < Len(word) /\ CharAt(word, ie + 1) = "."
      fe == IF hasPoint THEN DigitRun(word, ie + 2, base) ELSE ie
  IN [value |-> DigitsValue(word, ie + 2, fe, base,
                            DigitsValue(word, from, ie, base, 0)),
      nfrac |-> IF hasPoint THEN fe - (ie + 1) ELSE 0,
      end |-> fe]

(* the position of the first digit of an exponent whose mark is at k *)
ExpFirst(word, k) ==
  IF k + 1 <= Len(word) /\ CharAt(word, k + 1) \in {"+", "-"}
  THEN k + 2 ELSE k + 1

(* an exponent starts at k: one of the marks, an optional sign and at
   least one decimal digit; without a digit the mark is not read *)
HasExp(word, k, marks) ==
  /\ k <= Len(word)
  /\ CharAt(word, k) \in marks
  /\ DigitRun(word, ExpFirst(word, k), 10) >= ExpFirst(word, k)

(* the position of the last character read when an exponent may start at k *)
ExpEnd(word, k, marks) ==
  IF HasExp(word, k, marks)
  THEN DigitRun(word, ExpFirst(word, k), 10)
  ELSE k - 1

(* the value of the exponent that may start at k, 0 without one *)
ExpValue(word, k, marks) ==
  IF HasExp(word, k, marks)
  THEN LET v == DigitsValue(word, ExpFirst(word, k),
                            ExpEnd(word, k, marks), 10, 0)
       IN IF CharAt(word, k + 1) = "-" THEN 0 - v ELSE v
  ELSE 0

(* strtod reads a hexadecimal number: "0x" or "0X" followed by a
   hexadecimal digit, or by '.' and a hexadecimal digit *)
IsHexFloat(word) ==
  /\ Len(word) >= 3
  /\ CharAt(word, 1) = "0"
  /\ CharAt(word, 2) \in {"x", "X"}
  /\ \/ DigitVal(CharAt(word, 3)) < 16
     \/ /\ Len(word) >= 4
        /\ CharAt(word, 3) = "."
        /\ DigitVal(CharAt(word, 4)) < 16

(***************************************************************************)
(* strtod(word, nullptr) for a word that starts with a digit: the decimal  *)
(* form digits[.digits][(e|E)[sign]digits] or the hexadecimal form         *)
(* 0x hexdigits[.hexdigits][(p|P)[sign]digits], whose exponent is a power  *)
(* of two; the conversion stops at the first character that cannot         *)
(* continue the number.  The value is kept exactly, as m / 10^e; the       *)
(* rounding of the code's binary double and its overflow to infinity are   *)
(* outside the model, whose numbers stay small.                            *)
(***************************************************************************)
strtod(word) ==
  IF IsHexFloat(word)
  THEN LET mt == Mantissa(word, 3, 16)
           b == ExpValue(word, mt.end + 1, {"p", "P"}) - 4 * mt.nfrac
       IN IF b >= 0
          THEN NormD(mt.value * Pow(2, b), 0)
          ELSE NormD(mt.value * Pow(5, 0 - b), 0 - b)
  ELSE LET mt == Mantissa(word, 1, 10)
           d == ExpValue(word, mt.end + 1, {"e", "E"}) - mt.nfrac
       IN IF d >= 0
          THEN NormD(mt.value * Pow(10, d), 0)
          ELSE NormD(mt.value, 0 - d)

(* the end of the conversion done by strtod: the position of the last
   character it reads *)
strtod_end(word) ==
  IF IsHexFloat(word)
  THEN ExpEnd(word, Mantissa(word, 3, 16).end + 1, {"p", "P"})
  ELSE ExpEnd(word, Mantissa(word, 1, 10).end + 1, {"e", "E"})

(* nextWord as it would be if the delimiter stayed in the buffer *)
nextWord_keeping_delim(buffer, delim) ==
  LET p1 == Find(buffer, delim)
  IN IF p1 = npos
     THEN [word |-> buffer, buffer |-> "", p1 |-> p1]
     ELSE [word |-> SubSeq(buffer, 1, p1),
           buffer |-> SubSeq(buffer, p1 + 1, Len(buffer)),
           p1 |-> p1]

(***************************************************************************)
(* nextWord(word, buffer, delim): the result is the new word, the new      *)
(* buffer and the returned position.                                       *)
(***************************************************************************)
nextWord(buffer, delim) ==
  LET p1 == Find(buffer, delim)
  IN IF p1 = npos
     THEN [word |-> buffer, buffer |-> "", p1 |-> p1]
     ELSE [word |-> SubSeq(buffer, 1, p1),
           buffer |-> SubSeq(buffer, p1 + 2, Len(buffer)),
           p1 |-> p1]

(***************************************************************************)
(* struct param_t and struct word_t.  The eval member of word_t is a       *)
(* closure; the model names the closure (field eval) and, for the closure  *)
(* built by ';', keeps the captured word list (field wl).                  *)
(***************************************************************************)
P(name, type) == [name |-> name, type |-> type]

W(description, params, eval) ==
  [description |-> description, params |-> params, eval |-> eval, wl |-> <<>>]

(***************************************************************************)
(* The initializer lists of _runtimeDictionary and _compiletimeDictionary  *)
(* in Privates::Privates(), in source order.                               *)
(***************************************************************************)
RuntimeInitList == <<
  <<"ABS", W("Absolute Value (x -- |x|)",
       << <<P("x", st_number)>>, <<P("v", st_vec3)>> >>, "nop")>>,
  <<"COS", W("Cosine (angle -- cos(angle))",
       << <<P("angle", st_number)>> >>, "nop")>>,
  <<"ACOS", W("Arc-Cosine (x -- acos(x))",
       << <<P("x", st_number)>> >>, "nop")>>,
  <<"SIN", W("Sine (angle -- sin(angle))",
       << <<P("angle", st_number)>> >>, "nop")>>,
  <<"ASIN", W("Arc Sine (x -- asin(x))",
       << <<P("x", st_number)>> >>, "nop")>>,
  <<"TAN", W("Tangent (angle -- tan(angle))",
       << <<P("angle", st_number)>> >>, "nop")>>,
  <<"ATAN", W("Arc-Tangent (x -- atan(x))",
       << <<P("x", st_number)>> >>, "nop")>>,
  <<"ATAN2", W("Arc-Tangent of two variables (y x -- atan2(y,x))",
       << <<P("y", st_number), P("x", st_number)>> >>, "nop")>>,
  <<"NEG", W("Negate (x -- -x)",
       << <<P("x", st_number)>> >>, "nop")>>,
  <<"SQRT", W("Square Root (x -- sqrt(x) )",
       << <<P("x", st_number)>> >>, "nop")>>,
  <<"SQ", W("Square (x -- x^2)",
       << <<P("x", st_number)>> >>, "nop")>>,
  <<"POW", W("Exponentation (x y -- x^y)",
       << <<P("x", st_number), P("y", st_number)>> >>, "nop")>>,
  <<"INV", W("Invert (x -- 1/x))",
       << <<P("x", st_number)>> >>, "nop")>>,
  <<"PI", W("The constant PI",
       << <<>> >>, "nop")>>,
  <<"+", W("Addition (x y -- x+y)",
       << <<P("x", st_number), P("y", st_number)>>, <<P("vx", st_vec3), P("vx", st_vec3)>> >>, "nop")>>,
  <<"-", W("Subtract (x y -- y-x)",
       << <<P("x", st_number), P("y", st_number)>>, <<P("vx", st_vec3), P("vy", st_vec3)>> >>, "nop")>>,
  <<"*", W("Multiply (x y -- x*y)",
       << <<P("x", st_number), P("y", st_number)>> >>, "nop")>>,
  <<"*", W("Divide (x y -- y/x)",
       << <<P("x", st_number), P("y", st_number)>> >>, "nop")>>,
  <<"EVAL", W("Evaluate string as an algebraic expression",
       << <<P("expr", st_string)>> >>, "nop")>>,
  <<".S", W("print stack",
       << <<>> >>, "print_stack")>>,
  <<".\"", W("String literal",
       << <<>> >>, "string_literal")>>,
  <<"(", W("Commment",
       << <<>> >>, "parse_comment")>>,
  <<":", W("Define new word",
       << <<>> >>, "colon")>>,
  <<"STO", W("store variable",
       << <<P("val", st_number), P("var", st_string)>> >>, "nop")>>,
  <<"CONCAT", W("String concatenation",
       << <<P("s1", st_string), P("a2", st_any)>>, <<P("a1", st_any), P("s2", st_string)>> >>, "nop")>>,
  <<"DUP", W("Duplicate top of stack",
       << <<P("s1", st_any)>> >>, "dup")>>,
  <<"DROP", W("Drop top of stack",
       << <<P("s1", st_any)>> >>, "drop")>>,
  <<"OVER", W("Copy second stack item to top",
       << <<P("s1", st_any), P("s2", st_any)>> >>, "nop")>>,
  <<"ROLL+", W("Roll stack so that top goes to the bottom ( t1 t2 ... b -- t2 ... b t1 )",
       << <<>> >>, "nop")>>,
  <<"ROLL-", W("Roll stack so that bottom goes to the top ( t ... b2 b1 -- b1 t ... b2 )",
       << <<>> >>, "nop")>>,
  <<"->STR", W("Convert top of stack to a string ( val -- str )",
       << <<P("v1", st_any)>> >>, "nop")>>,
  <<"STR->", W("Parse string at top of stack to another type ( str -- val )",
       << <<P("v1", st_string)>> >>, "nop")>>,
  <<"->{X}", W("Convert value on top of stack to X component of vec3 ( x -- {x,,} )",
       << <<P("X", st_number)>> >>, "to_vec3_x")>>,
  <<"->{Y}", W("Convert value on top of stack to Y component of vec3 ( y -- {,y,} )",
       << <<P("Y", st_number)>> >>, "to_vec3_y")>>,
  <<"->{Z}", W("Convert value on top of stack to Z component of vec3 ( z -- {,,z} )",
       << <<P("Z", st_number)>> >>, "to_vec3_z")>>,
  <<"{}->", W("Convert vector to components on stack ( v -- x y z )",
       << <<P("v1", st_vec3)>> >>, "nop")>>,
  <<"MPOS->", W("Push Machine Position to the stack. ( -- mpos )",
       << <<>> >>, "nop")>>,
  <<"WPOS->", W("Push Work Position to the stack. ( -- wpos )",
       << <<>> >>, "nop")>>,
  <<"->WPOS", W("Set Work Position ( wpos -- )",
       << <<P("newpos", st_vec3)>> >>, "nop")>>,
  <<"SPEED->", W("Push Spindle Speed to the stack. ( -- speed )",
       << <<>> >>, "nop")>>,
  <<"->SPEED", W("Set Spindle Speed ( speed -- )",
       << <<P("speed", st_number)>> >>, "nop")>>,
  <<"FEED->", W("Push jog feed rate to the stack. ( -- feed )",
       << <<>> >>, "nop")>>,
  <<"->FEED", W("Set jog feed rate ( feed -- )",
       << <<P("feed", st_number)>> >>, "nop")>>,
  <<"JOG-R", W("Jog to relative position ( pos -- )",
       << <<P("offset", st_vec3)>> >>, "nop")>>,
  <<"JOG-WA", W("Jog to absolute work position ( wpos -- )",
       << <<P("wpos", st_vec3)>> >>, "nop")>>,
  <<"JOG-MA", W("Jog to absolute machine position ( mpos -- )",
       << <<P("mpos", st_vec3)>> >>, "nop")>>,
  <<"PROBE", W("Probe machine (target feed -- )",
       << <<P("target", st_vec3), P("feed", st_number)>> >>, "nop")>>,
  <<"MODAL-STATE->", W("Push machine's modal state on the stack ( -- state )",
       << <<>> >>, "nop")>>,
  <<"->MODAL-STATE", W("Send modal state to the machine ( state -- )",
       << <<P("state", st_string)>> >>, "nop")>>,
  <<"SEND", W("Send command",
       << <<P("g-code", st_string)>> >>, "nop")>>
>>

CompiletimeInitList == <<
  <<";", W("End Definition",
       << <<>> >>, "semicolon")>>,
  <<"(", W("Commment",
       << <<>> >>, "parse_comment")>>
>>

(***************************************************************************)
(* std::map built from an initializer list: of several elements with the   *)
(* same key, the first one is kept.                                        *)
(***************************************************************************)
MapOfInitList(il) ==
  LET keys == {il[i][1] : i \in 1..Len(il)}
      first(k) == CHOOSE i \in 1..Len(il) :
                    il[i][1] = k /\ \A j \in 1..Len(il) : il[j][1] = k => i <= j
  IN [k \in keys |-> il[first(k)][2]]

(* the assignment as std::map::insert would do it: an existing key is kept *)
MapInsertOnly(map, key, val) ==
  IF key \in DOMAIN map THEN map
  ELSE [k \in (DOMAIN map) \cup {key} |-> IF k = key THEN val ELSE map[k]]

(* std::map::operator[] followed by an assignment: insert or replace *)
MapAssign(map, key, val) ==
  [k \in (DOMAIN map) \cup {key} |-> IF k = key THEN val ELSE map[k]]

(***************************************************************************)
(* The stack: a std::deque whose back is the top of the stack, modelled by *)
(* a sequence whose last element is the top.                               *)
(***************************************************************************)
stack_push(stk, val) == Append(stk, val)

(* stack_pop as it would be if it took the value from the front of the
   deque *)
stack_pop_front(stk) ==
  [rv |-> stk[1], stack |-> SubSeq(stk, 2, Len(stk))]

(* stack_pop on a non-empty stack: the value returned and the stack left *)
stack_pop(stk) ==
  [rv |-> stk[Len(stk)], stack |-> SubSeq(stk, 1, Len(stk) - 1)]

(* the conversion of a long to a double *)
DoubleOfLong(n) == [nan |-> FALSE, m |-> n, e |-> 0]

stack_pop_as_double(stk) ==
  LET s0 == stack_pop(stk)
  IN [rv |-> IF s0.rv.index = st_double THEN s0.rv.d
             ELSE IF s0.rv.index = st_integer THEN DoubleOfLong(s0.rv.n)
             ELSE NaN,
      stack |-> s0.stack]

(* top_of_stack_types as it would be if it listed the top of the stack first *)
top_of_stack_types_top_first(stk, n) ==
  IF Len(stk) < n THEN <<>>
  ELSE [i \in 1..n |-> stk[Len(stk) - i + 1].index]

(***************************************************************************)
(* top_of_stack_types(n): the variant indices of the n topmost values,     *)
(* the deepest of them first and the top of the stack last; empty when     *)
(* the stack holds fewer than n values.                                    *)
(***************************************************************************)
top_of_stack_types(stk, n) ==
  IF Len(stk) < n THEN <<>>
  ELSE [i \in 1..n |-> stk[Len(stk) - n + i].index]

(* the line top_of_stack_types prints when the stack is too small *)
SizeTooSmall(stk, n) ==
  "size too small to validate (" \o ToString(Len(stk)) \o " < "
     \o ToString(n) \o ")"

(* operator== as it would be if st_number stood for doubles only *)
TypeEq_number_is_double(dt, index) ==
  CASE dt \in {st_double, st_integer, st_string, st_vec3} -> dt = index
    [] dt = st_number -> st_double = index
    [] dt = st_any -> TRUE
    [] OTHER -> FALSE

(* operator==(const datatype_t &dt, const size_t &index) *)
TypeEq(dt, index) ==
  CASE dt \in {st_double, st_integer, st_string, st_vec3} -> dt = index
    [] dt = st_number -> (st_double = index) \/ (st_integer = index)
    [] dt = st_any -> TRUE
    [] OTHER -> FALSE

(***************************************************************************)
(* validate_stack_for_word: rv starts true for a word without parameter    *)
(* list or with the single empty list; the loop tries the alternatives in  *)
(* order while rv is false, and an alternative for which                   *)
(* top_of_stack_types returns nothing leaves rv as it is.                  *)
(***************************************************************************)
(* the loop as it would be if it stopped after the first alternative *)
ValidateLoop_first_only(params, stk, k, rv) ==
  IF k > Len(params) \/ rv THEN rv
  ELSE LET p == params[k]
           n == Len(p)
           tv == top_of_stack_types(stk, n)
           pred == \A i \in 1..n : TypeEq(p[i].type, tv[i])
       IN IF Len(tv) # 0 THEN pred ELSE rv

RECURSIVE ValidateLoop(_, _, _, _)
ValidateLoop(params, stk, k, rv) ==
  IF k > Len(params) \/ rv THEN rv
  ELSE LET p == params[k]
           n == Len(p)
           tv == top_of_stack_types(stk, n)
           pred == \A i \in 1..n : TypeEq(p[i].type, tv[i])
       IN ValidateLoop(params, stk, k + 1, IF Len(tv) # 0 THEN pred ELSE rv)

(* validate_stack_for_word as it would be without the test tv.size()!=0 *)
validate_without_size_test(de, stk) ==
  \/ Len(de.params) = 0
  \/ \E k \in 1..Len(de.params) :
       LET p == de.params[k]
           n == IF Len(p) < Len(stk) THEN Len(p) ELSE Len(stk)
       IN \A i \in 1..n : TypeEq(p[i].type, stk[Len(stk) - n + i].index)

validate_stack_for_word(de, stk) ==
  ValidateLoop(de.params, stk, 1,
               Len(de.params) = 0
                 \/ (Len(de.params) = 1 /\ Len(de.params[1]) = 0))

(* what the calls of top_of_stack_types made by the loop print *)
RECURSIVE ValidatePrints(_, _, _, _)
ValidatePrints(params, stk, k, rv) ==
  IF k > Len(params) \/ rv THEN <<>>
  ELSE LET p == params[k]
           n == Len(p)
           tv == top_of_stack_types(stk, n)
           pred == \A i \in 1..n : TypeEq(p[i].type, tv[i])
       IN (IF Len(stk) < n THEN <<SizeTooSmall(stk, n)>> ELSE <<>>)
            \o ValidatePrints(params, stk, k + 1,
                              IF Len(tv) # 0 THEN pred ELSE rv)

(***************************************************************************)
(* The interpreter state (the members of Privates) as a record, and the    *)
(* result of one call of eval: the state it leaves, the buffer it leaves   *)
(* in rest, its return value, the lines it prints, the word list of the    *)
(* user word it enters (call), and whether it ran into undefined           *)
(* behaviour (ub).  kind names the branch that was taken.                  *)
(* Of the output only the diagnostic lines are modelled; the dumps of      *)
(* print_stack and of to_string(word) are left out.                        *)
(***************************************************************************)
Res(m, rest, rv, kind, out) ==
  [m |-> m, rest |-> rest, rv |-> rv, kind |-> kind, out |-> out,
   call |-> <<>>, ub |-> FALSE]

(* parse_comment as it would be if the comment ended at the last ')' *)
parse_comment_to_last(m, word, rest) ==
  LET ps == Positions(rest, ")")
      q == CHOOSE i \in ps : \A j \in ps : j <= i
  IN IF ps # {}
     THEN Res(m, SubSeq(rest, q + 1, Len(rest)), q - 1, "native", <<>>)
     ELSE Res(m, "", npos, "native",
              <<"parse error in comment: terminating ')' not found []">>)

(* Privates::parse_comment *)
parse_comment(m, word, rest) ==
  LET nw == nextWord(rest, ")")
  IN IF nw.p1 # npos
     THEN Res(m, nw.buffer, nw.p1, "native", <<>>)
     ELSE Res(m, nw.buffer, nw.p1, "native",
              <<"parse error in comment: terminating ')' not found ["
                  \o nw.buffer \o "]">>)

(* the body of '."' as it would be if the text ended at the next space *)
string_literal_to_space(m, word, rest) ==
  LET nw == nextWord(rest, " ")
  IN IF nw.p1 # npos
     THEN Res([m EXCEPT !.stack = stack_push(m.stack, MkString(nw.word))],
              nw.buffer, nw.p1, "native", <<>>)
     ELSE Res(m, nw.buffer, 0, "native", <<>>)

(* the body of the runtime word '."' *)
string_literal(m, word, rest) ==
  LET nw == nextWord(rest, "\"")
  IN IF nw.p1 # npos
     THEN Res([m EXCEPT !.stack = stack_push(m.stack, MkString(nw.word))],
              nw.buffer, nw.p1, "native", <<>>)
     ELSE Res(m, nw.buffer, 0, "native",
              <<"parse error in string literal: terminating '\"' not found ["
                  \o nw.buffer \o "]">>)

(* the body of the runtime word ':' *)
colon(m, word, rest) ==
  Res([m EXCEPT !.isCompiling = TRUE], rest, 0, "native", <<>>)

(* the body of DUP as it would be if it copied the bottom of the stack *)
dup_bottom(m, word, rest) ==
  IF Len(m.stack) = 0
  THEN [Res(m, rest, 0, "native", <<>>) EXCEPT !.ub = TRUE]
  ELSE Res([m EXCEPT !.stack = stack_push(m.stack, m.stack[1])],
           rest, 0, "native", <<>>)

(* the body of DUP; _stack.back() of an empty deque is undefined *)
dup(m, word, rest) ==
  IF Len(m.stack) = 0
  THEN [Res(m, rest, 0, "native", <<>>) EXCEPT !.ub = TRUE]
  ELSE Res([m EXCEPT !.stack = stack_push(m.stack, m.stack[Len(m.stack)])],
           rest, 0, "native", <<>>)

(* the body of DROP; stack_pop of an empty deque is undefined *)
drop(m, word, rest) ==
  IF Len(m.stack) = 0
  THEN [Res(m, rest, 0, "native", <<>>) EXCEPT !.ub = TRUE]
  ELSE Res([m EXCEPT !.stack = stack_pop(m.stack).stack],
           rest, 0, "native", <<>>)

(* the bodies of the setters as they would be if all three set x *)
to_vec3_always_x(m, word, rest, axis) ==
  IF Len(m.stack) = 0
  THEN [Res(m, rest, 0, "native", <<>>) EXCEPT !.ub = TRUE]
  ELSE LET pd == stack_pop_as_double(m.stack)
       IN Res([m EXCEPT !.stack = stack_push(pd.stack, Vec3(pd.rv, NaN, NaN))],
              rest, 0, "native", <<>>)

(* the bodies of ->{X}, ->{Y} and ->{Z} *)
to_vec3(m, word, rest, axis) ==
  IF Len(m.stack) = 0
  THEN [Res(m, rest, 0, "native", <<>>) EXCEPT !.ub = TRUE]
  ELSE LET pd == stack_pop_as_double(m.stack)
           v == CASE axis = "x" -> Vec3(pd.rv, NaN, NaN)
                  [] axis = "y" -> Vec3(NaN, pd.rv, NaN)
                  [] axis = "z" -> Vec3(NaN, NaN, pd.rv)
       IN Res([m EXCEPT !.stack = stack_push(pd.stack, v)],
              rest, 0, "native", <<>>)

(* the body of ';' as it would be if it stored the new word in
   _compiletimeDictionary as well *)
semicolon_into_compiletime(m, word, rest) ==
  LET de == [description |-> "user " \o m.newWord,
             params |-> <<>>,
             eval |-> "user_eval",
             wl |-> m.newDefinition]
  IN Res([m EXCEPT !.rt = MapAssign(m.rt, m.newWord, de),
                   !.ct = MapAssign(m.ct, m.newWord, de),
                   !.isCompiling = FALSE,
                   !.newWord = "",
                   !.newDefinition = <<>>],
         rest, 0, "native", <<>>)

(* the body of ';' as it would be without _newDefinition.clear() *)
semicolon_without_clear(m, word, rest) ==
  LET de == [description |-> "user " \o m.newWord,
             params |-> <<>>,
             eval |-> "user_eval",
             wl |-> m.newDefinition]
  IN Res([m EXCEPT !.rt = MapAssign(m.rt, m.newWord, de),
                   !.isCompiling = FALSE,
                   !.newWord = ""],
         rest, 0, "native", <<>>)

(* the body of ';' as it would be if _newDefinition were cleared before
   the closure of the new word took its copy of the list *)
semicolon_without_copy(m, word, rest) ==
  LET de == [description |-> "user " \o m.newWord,
             params |-> <<>>,
             eval |-> "user_eval",
             wl |-> <<>>]
  IN Res([m EXCEPT !.rt = MapAssign(m.rt, m.newWord, de),
                   !.isCompiling = FALSE,
                   !.newWord = "",
                   !.newDefinition = <<>>],
         rest, 0, "native", <<>>)

(***************************************************************************)
(* the body of the compile-time word ';': the new entry replaces or        *)
(* extends _runtimeDictionary; its closure captures a copy of              *)
(* _newDefinition.                                                         *)
(***************************************************************************)
semicolon(m, word, rest) ==
  LET wl == m.newDefinition
      de == [description |-> "user " \o m.newWord,
             params |-> <<>>,
             eval |-> "user_eval",
             wl |-> wl]
  IN Res([m EXCEPT !.rt = MapAssign(m.rt, m.newWord, de),
                   !.isCompiling = FALSE,
                   !.newWord = "",
                   !.newDefinition = <<>>],
         rest, 0, "native", <<>>)

(***************************************************************************)
(* The call we.second.eval(word, rest) of a dictionary entry.  The closure *)
(* of a user word calls user_eval with its word list: the model returns    *)
(* the list in call, and the steps of user_eval are taken one by one.      *)
(***************************************************************************)
CallEval(de, m, word, rest) ==
  CASE de.eval = "nop" -> Res(m, rest, 0, "native", <<>>)
    [] de.eval = "print_stack" -> Res(m, rest, 0, "native", <<>>)
    [] de.eval = "string_literal" -> string_literal(m, word, rest)
    [] de.eval = "parse_comment" -> parse_comment(m, word, rest)
    [] de.eval = "colon" -> colon(m, word, rest)
    [] de.eval = "dup" -> dup(m, word, rest)
    [] de.eval = "drop" -> drop(m, word, rest)
    [] de.eval = "to_vec3_x" -> to_vec3(m, word, rest, "x")
    [] de.eval = "to_vec3_y" -> to_vec3(m, word, rest, "y")
    [] de.eval = "to_vec3_z" -> to_vec3(m, word, rest, "z")
    [] de.eval = "semicolon" -> semicolon(m, word, rest)
    [] de.eval = "user_eval" ->
         [Res(m, rest, 0, "call", <<>>) EXCEPT !.call = de.wl]

(* runtime_eval, the branch of a word that starts with a digit *)
push_literal(m, word, rest) ==
  IF Find(word, ".") # npos
  THEN Res([m EXCEPT !.stack = stack_push(m.stack, MkDouble(strtod(word)))],
           rest, 0, "literal", <<>>)
  ELSE Res([m EXCEPT !.stack = stack_push(m.stack, MkInteger(strtol(word)))],
           rest, 0, "literal", <<>>)

(* runtime_eval, the branch of a word whose validation fails *)
not_right(m, word, rest) ==
  Res(m, rest, 0, "rejected",
      ValidatePrints(m.rt[word].params, m.stack, 1,
                     Len(m.rt[word].params) = 0
                       \/ (Len(m.rt[word].params) = 1
                             /\ Len(m.rt[word].params[1]) = 0))
        \o <<"parameters not right for '" \o word \o "'">>)

(* not_found as it would be if the error path also reset the stack *)
not_found_clearing(m, word, rest) ==
  Res([m EXCEPT !.stack = <<>>], rest, 0, "notfound",
      <<"not found '" \o word \o "' in dict">>)

(* runtime_eval, the branch of a word that is not in _runtimeDictionary *)
not_found(m, word, rest) ==
  Res(m, rest, 0, "notfound", <<"not found '" \o word \o "' in dict">>)

(* runtime_eval as it would be if the dictionary were consulted before the
   test of the first character *)
runtime_eval_lookup_first(m, word, rest) ==
  IF word \in DOMAIN m.rt
  THEN IF validate_stack_for_word(m.rt[word], m.stack)
       THEN CallEval(m.rt[word], m, word, rest)
       ELSE not_right(m, word, rest)
  ELSE IF isdigit(CharAt(word, 1))
       THEN push_literal(m, word, rest)
       ELSE not_found(m, word, rest)

(* Privates::runtime_eval *)
runtime_eval(m, word, rest) ==
  IF isdigit(CharAt(word, 1))
  THEN push_literal(m, word, rest)
  ELSE IF word \in DOMAIN m.rt
       THEN IF validate_stack_for_word(m.rt[word], m.stack)
            THEN CallEval(m.rt[word], m, word, rest)
            ELSE not_right(m, word, rest)
       ELSE not_found(m, word, rest)

(* compiletime_eval as it would be if a number inside a definition were
   pushed as well as stored *)
compiletime_eval_pushing_numbers(m, word, rest) ==
  IF m.newWord = ""
  THEN Res([m EXCEPT !.newWord = word], rest, 0, "name", <<>>)
  ELSE IF word \in DOMAIN m.ct
       THEN [CallEval(m.ct[word], m, word, rest) EXCEPT !.kind = "ctnative"]
       ELSE IF isdigit(CharAt(word, 1))
            THEN Res([push_literal(m, word, rest).m EXCEPT !.newDefinition =
                                       Append(m.newDefinition, word)],
                     rest, 0, "append", <<>>)
            ELSE IF word \in DOMAIN m.rt
                 THEN Res([m EXCEPT !.newDefinition =
                                       Append(m.newDefinition, word)],
                          rest, 0, "append", <<>>)
                 ELSE Res(m, rest, npos, "unrecognized",
                          <<"unrecognized word at compile time: '"
                              \o word \o "'">>)

(* compiletime_eval as it would be if ':' inside a definition started a
   new definition *)
compiletime_eval_nested_colon(m, word, rest) ==
  IF m.newWord = ""
  THEN Res([m EXCEPT !.newWord = word], rest, 0, "name", <<>>)
  ELSE IF word = ":"
       THEN Res([m EXCEPT !.newWord = "", !.newDefinition = <<>>],
                rest, 0, "append", <<>>)
       ELSE IF word \in DOMAIN m.ct
            THEN [CallEval(m.ct[word], m, word, rest) EXCEPT !.kind = "ctnative"]
            ELSE IF isdigit(CharAt(word, 1)) \/ word \in DOMAIN m.rt
                 THEN Res([m EXCEPT !.newDefinition =
                                       Append(m.newDefinition, word)],
                          rest, 0, "append", <<>>)
                 ELSE Res(m, rest, npos, "unrecognized",
                          <<"unrecognized word at compile time: '"
                              \o word \o "'">>)

(* compiletime_eval as it would be if the compile-time dictionary were
   consulted before the name of the new word is adopted *)
compiletime_eval_lookup_first(m, word, rest) ==
  IF word \in DOMAIN m.ct
  THEN [CallEval(m.ct[word], m, word, rest) EXCEPT !.kind = "ctnative"]
  ELSE IF m.newWord = ""
       THEN Res([m EXCEPT !.newWord = word], rest, 0, "name", <<>>)
       ELSE IF isdigit(CharAt(word, 1)) \/ word \in DOMAIN m.rt
            THEN Res([m EXCEPT !.newDefinition = Append(m.newDefinition, word)],
                     rest, 0, "append", <<>>)
            ELSE Res(m, rest, npos, "unrecognized",
                     <<"unrecognized word at compile time: '"
                         \o word \o "'">>)

(* Privates::compiletime_eval *)
compiletime_eval(m, word, rest) ==
  IF m.newWord = ""
  THEN Res([m EXCEPT !.newWord = word], rest, 0, "name", <<>>)
  ELSE IF word \in DOMAIN m.ct
       THEN [CallEval(m.ct[word], m, word, rest) EXCEPT !.kind = "ctnative"]
       ELSE IF isdigit(CharAt(word, 1))
            THEN Res([m EXCEPT !.newDefinition = Append(m.newDefinition, word)],
                     rest, 0, "append", <<>>)
            ELSE IF word \in DOMAIN m.rt
                 THEN Res([m EXCEPT !.newDefinition =
                                       Append(m.newDefinition, word)],
                          rest, 0, "append", <<>>)
                 ELSE Res(m, rest, npos, "unrecognized",
                          <<"unrecognized word at compile time: '"
                              \o word \o "'">>)

(* eval as it would be without the test word.size()>0: the empty word is
   no number and is in no dictionary *)
eval_without_size_test(m, word, rest) ==
  IF Len(word) > 0
  THEN IF m.isCompiling
       THEN compiletime_eval(m, word, rest)
       ELSE runtime_eval(m, word, rest)
  ELSE IF m.isCompiling
       THEN IF m.newWord = ""
            THEN Res([m EXCEPT !.newWord = word], rest, 0, "name", <<>>)
            ELSE Res(m, rest, npos, "unrecognized",
                     <<"unrecognized word at compile time: ''">>)
       ELSE not_found(m, word, rest)

(* Privates::eval *)
eval(m, word, rest) ==
  IF Len(word) > 0
  THEN IF m.isCompiling
       THEN compiletime_eval(m, word, rest)
       ELSE runtime_eval(m, word, rest)
  ELSE Res(m, rest, 0, "empty", <<>>)

(***************************************************************************)
(* The frames of user_eval.  Entering a user word pushes a frame holding   *)
(* its word list; each round of the loop of user_eval evaluates the next   *)
(* word of the innermost frame with an empty rest.                         *)
(***************************************************************************)
Enter(fr, word, r) ==
  IF r.kind = "call"
  THEN Append(fr, [word |-> word, wl |-> r.call, i |-> 1])
  ELSE fr

(* one round of the loop of parse: nextWord(word, line), eval(word, line) *)
ParseRound(m, ln) ==
  LET nw == nextWord(ln, " ")
      r == eval(m, nw.word, nw.buffer)
  IN [r |-> r, word |-> nw.word, line |-> r.rest]

(* one round of the loop of user_eval in the innermost frame *)
UserRound(m, fr) ==
  LET top == fr[Len(fr)]
      w == top.wl[top.i]
  IN [r |-> eval(m, w, ""), word |-> w,
      frames |-> [fr EXCEPT ![Len(fr)].i = @ + 1]]

(***************************************************************************)
(* A whole call parse(ln) from state m, as the rounds above taken until    *)
(* the line is empty and every user word has returned; done is FALSE when  *)
(* the call has not returned after fuel rounds or has run into undefined   *)
(* behaviour.                                                              *)
(***************************************************************************)
RECURSIVE RunParse(_, _, _, _)
RunParse(m, ln, fr, fuel) ==
  IF fuel = 0 THEN [m |-> m, done |-> FALSE]
  ELSE IF fr # <<>>
  THEN IF fr[Len(fr)].i > Len(fr[Len(fr)].wl)
       THEN RunParse(m, ln, SubSeq(fr, 1, Len(fr) - 1), fuel - 1)
       ELSE LET u == UserRound(m, fr)
            IN IF u.r.ub THEN [m |-> m, done |-> FALSE]
               ELSE RunParse(u.r.m, ln, Enter(u.frames, u.word, u.r), fuel - 1)
  ELSE IF Len(ln) = 0 THEN [m |-> m, done |-> TRUE]
  ELSE LET p == ParseRound(m, ln)
       IN IF p.r.ub THEN [m |-> m, done |-> FALSE]
          ELSE RunParse(p.r.m, p.line, Enter(fr, p.word, p.r), fuel - 1)

(***************************************************************************)
(* The diagnostic lines a whole call parse(ln) from state m prints, by the *)
(* same rounds as RunParse.                                                *)
(***************************************************************************)
RECURSIVE RunOut(_, _, _, _)
RunOut(m, ln, fr, fuel) ==
  IF fuel = 0 THEN <<>>
  ELSE IF fr # <<>>
  THEN IF fr[Len(fr)].i > Len(fr[Len(fr)].wl)
       THEN RunOut(m, ln, SubSeq(fr, 1, Len(fr) - 1), fuel - 1)
       ELSE LET u == UserRound(m, fr)
            IN IF u.r.ub THEN <<>>
               ELSE u.r.out
                      \o RunOut(u.r.m, ln, Enter(u.frames, u.word, u.r), fuel - 1)
  ELSE IF Len(ln) = 0 THEN <<>>
  ELSE LET p == ParseRound(m, ln)
       IN IF p.r.ub THEN <<>>
          ELSE p.r.out \o RunOut(p.r.m, p.line, Enter(fr, p.word, p.r), fuel - 1)

(* the words of wl separated by single spaces *)
RECURSIVE Join(_)
Join(wl) ==
  IF Len(wl) = 0 THEN ""
  ELSE IF Len(wl) = 1 THEN wl[1]
  ELSE wl[1] \o " " \o Join(Tail(wl))

(***************************************************************************)
(* The lines the host may hand to parse: the model is run once for each of *)
(* these small sets of lines, each line being drawn from the set chosen.   *)
(***************************************************************************)
ScnErrors == {"1", "2.5", "DUP", "DROP", "+", "NOPE", "NOPE 1", "+ 1 DUP"}

ScnTypes == {"1", "2.5", ".\" x\"", "->{X}", "1 ->{X}", "STO", "PROBE", "+",
             "CONCAT"}

ScnDefine == {":", ": FOO", ": DUP", ": ;", "1 DUP", ";", "FOO", "NOPE", "1"}

ScnInline == {": FOO .\" 1\" ;", ": FOO 1 DUP ;", "FOO", ".\" 1\"", "1 DUP"}

ScnLate == {": A DUP ;", ": DUP 2 ;", ": B 1 ;", ": A B ;", ": B 2 ;", "A"}

ScnComment == {"( a ) 1", ": FOO ( a ) 1 ;", "( a ( b ) 1 )", "( a", "1 ( a",
               ": FOO ( a", "FOO", ": FOO ( a ) 1"}

ScnString == {".\" a b\" 1", ".\" a", "1 .\" a", ".\" \"", ".\" a\" INV"}

ScnNumbers == {"0x1234", "10 010", "12abc", "09", "1.5e3 0x.8"}

ScnCollect == {": FOO NOPE 1 ;", ": FOO 2X", "DUP ;", "FOO", "1"}

ScnFile == {"1", "NOPE", "DUP"}

ScnVec == {"1", "2.5 ->{Z}", "->{X}", "->{Y}", ".\" x\" ->{Y}"}

ScnStub == {"1", "2", "+", "OVER", "ROLLU", "ROLL+", "1 2 /"}

ScnNested == {": FOO : DUP 1 ;", "FOO", ";", "1 DUP"}

ScnDigitName == {": 2X DUP ;", "2X", ": FOO 2X ;", "FOO"}

ScnSpaces == {" 1  DUP", ":  FOO  1 ;", "FOO  ", " "}

Scenarios == {ScnErrors, ScnTypes, ScnDefine, ScnInline, ScnLate,
              ScnComment, ScnString, ScnNumbers, ScnCollect, ScnFile, ScnVec,
              ScnStub, ScnNested, ScnDigitName, ScnSpaces}

(***************************************************************************)
(* The files the host may hand to loadFile, as the lines getline reads     *)
(* from them: an empty file, a file with a failing line in the middle,     *)
(* and a file with a definition that spans two lines.                      *)
(***************************************************************************)
Files == {<<>>,
          <<"1", "NOPE", "DUP">>,
          <<": FOO 1", "DUP ;", "FOO">>}

FilesOf(ls) == IF ls = ScnFile THEN Files ELSE {}

(***************************************************************************)
(* State                                                                   *)
(*   _stack .. _newDefinition   the members of Privates                    *)
(*   line        the buffer of the running call of parse                   *)
(*   frames      the running calls of user_eval, the innermost last:       *)
(*               the word, its word list and the index of the next token   *)
(*   pc          "idle": no call of parse is running; "parse": in the loop *)
(*               of parse; "overflow": the recursion of user_eval has      *)
(*               exhausted the call stack; "undefined": a body has run     *)
(*               into undefined behaviour                                  *)
(*   parse_rv    the value returned by the last call of parse              *)
(*   stdout      the diagnostic lines printed since the call of parse      *)
(*   lines       the lines the host chooses from                           *)
(*   ncalls      the number of calls of parse and loadFile by the host     *)
(*   load        the running or last call of loadFile: whether it is       *)
(*               running, the lines read from the file, lineNo and rv      *)
(* and, to state properties, a record of what happened:                    *)
(*   last        the branch taken by the last step, its word and the       *)
(*               value eval returned                                       *)
(*   deflog      the definitions closed by ';' so far: name and tokens     *)
(*   defined     the name installed by ';' if nothing was evaluated since  *)
(*   atCall      the outermost user word entered last, the stack it found  *)
(*               and whether it had just been defined                      *)
(***************************************************************************)
VARIABLES _stack, _runtimeDictionary, _compiletimeDictionary,
          _isCompiling, _newWord, _newDefinition,
          line, frames, pc, parse_rv, stdout, lines, ncalls, load,
          last, deflog, defined, atCall

privates == <<_stack, _runtimeDictionary, _compiletimeDictionary,
              _isCompiling, _newWord, _newDefinition>>

history == <<last, deflog, defined, atCall>>

vars == <<_stack, _runtimeDictionary, _compiletimeDictionary,
          _isCompiling, _newWord, _newDefinition,
          line, frames, pc, parse_rv, stdout, lines, ncalls, load,
          last, deflog, defined, atCall>>

(* the members of Privates as the record the evaluator works on *)
Cur ==
  [stack |-> _stack, rt |-> _runtimeDictionary, ct |-> _compiletimeDictionary,
   isCompiling |-> _isCompiling, newWord |-> _newWord,
   newDefinition |-> _newDefinition]

SetPrivates(m) ==
  /\ _stack' = m.stack
  /\ _runtimeDictionary' = m.rt
  /\ _compiletimeDictionary' = m.ct
  /\ _isCompiling' = m.isCompiling
  /\ _newWord' = m.newWord
  /\ _newDefinition' = m.newDefinition

(* Privates::Privates() and the state of the host before the first call *)
Init ==
  /\ _stack = <<>>
  /\ _runtimeDictionary = MapOfInitList(RuntimeInitList)
  /\ _compiletimeDictionary = MapOfInitList(CompiletimeInitList)
  /\ _isCompiling = FALSE
  /\ _newWord = ""
  /\ _newDefinition = <<>>
  /\ line = ""
  /\ frames = <<>>
  /\ pc = "idle"
  /\ parse_rv = TRUE
  /\ stdout = <<>>
  /\ lines \in Scenarios
  /\ ncalls = 0
  /\ load = [active |-> FALSE, lines |-> <<>>, lineNo |-> 0, rv |-> FALSE]
  /\ last = [kind |-> "init", word |-> "", rv |-> 0]
  /\ deflog = <<>>
  /\ defined = ""
  /\ atCall = [word |-> "", stack |-> <<>>, fresh |-> FALSE]

(* the words whose call of user_eval is running *)
Active(fr) == {fr[i].word : i \in 1..Len(fr)}

(***************************************************************************)
(* The effect of one call eval(word, rest) with result r; newLine is the   *)
(* buffer of parse after the call and fr the frames before a call of a     *)
(* user word is entered.  A user word that is entered while it is already  *)
(* running recurses without end (no token of a word list is conditional),  *)
(* which exhausts the call stack.                                          *)
(***************************************************************************)
Advance(r, word, newLine, fr) ==
  IF r.ub
  THEN /\ pc' = "undefined"
       /\ last' = [kind |-> "undefined", word |-> word, rv |-> r.rv]
       /\ UNCHANGED <<privates, line, frames, parse_rv, stdout, lines, ncalls,
                      load, deflog, defined, atCall>>
  ELSE IF r.kind = "call" /\ Len(fr) >= MaxFrames /\ word \in Active(fr)
  THEN /\ pc' = "overflow"
       /\ last' = [kind |-> "overflow", word |-> word, rv |-> r.rv]
       /\ UNCHANGED <<privates, line, frames, parse_rv, stdout, lines, ncalls,
                      load, deflog, defined, atCall>>
  ELSE /\ Len(r.m.stack) <= MaxStack
       /\ r.kind = "call" => Len(fr) < MaxFrames
       /\ SetPrivates(r.m)
       /\ line' = newLine
       /\ frames' = Enter(fr, word, r)
       /\ stdout' = stdout \o r.out
       /\ last' = [kind |-> r.kind, word |-> word, rv |-> r.rv]
       /\ deflog' = IF r.kind = "ctnative" /\ word = ";"
                    THEN Append(deflog, [name |-> _newWord, wl |-> _newDefinition])
                    ELSE deflog
       /\ defined' = IF r.kind = "ctnative" /\ word = ";" THEN _newWord
                     ELSE IF r.kind = "empty" THEN defined
                     ELSE ""
       /\ atCall' = IF r.kind = "call" /\ fr = <<>>
                    THEN [word |-> word, stack |-> _stack,
                          fresh |-> (defined = word)]
                    ELSE atCall
       /\ UNCHANGED <<pc, parse_rv, lines, ncalls, load>>

(* the call of parse as it would be if it started from a reset compilation
   state *)
Parse_resetting(l) ==
  /\ pc = "idle"
  /\ ncalls < MaxCalls
  /\ line' = l
  /\ pc' = "parse"
  /\ stdout' = <<>>
  /\ ncalls' = ncalls + 1
  /\ last' = [kind |-> "begin", word |-> "", rv |-> 0]
  /\ _isCompiling' = FALSE
  /\ _newWord' = ""
  /\ _newDefinition' = <<>>
  /\ UNCHANGED <<_stack, _runtimeDictionary, _compiletimeDictionary,
                 frames, parse_rv, lines, load, deflog, defined, atCall>>

(* the host calls RpnCncController::parse(l) *)
Parse(l) ==
  /\ pc = "idle"
  /\ ncalls < MaxCalls
  /\ line' = l
  /\ pc' = "parse"
  /\ stdout' = <<>>
  /\ ncalls' = ncalls + 1
  /\ last' = [kind |-> "begin", word |-> "", rv |-> 0]
  /\ UNCHANGED <<privates, frames, parse_rv, lines, load,
                 deflog, defined, atCall>>

(* one round of the loop of parse: nextWord, then eval of the word *)
ParseWord ==
  /\ pc = "parse"
  /\ frames = <<>>
  /\ Len(line) > 0
  /\ LET p == ParseRound(Cur, line)
     IN Advance(p.r, p.word, p.line, frames)

(* one round of the loop of user_eval: eval of the next word of the list *)
UserWord ==
  /\ pc = "parse"
  /\ frames # <<>>
  /\ frames[Len(frames)].i <= Len(frames[Len(frames)].wl)
  /\ LET u == UserRound(Cur, frames)
     IN Advance(u.r, u.word, line, u.frames)

(* user_eval returns *)
UserReturn ==
  /\ pc = "parse"
  /\ frames # <<>>
  /\ LET top == frames[Len(frames)]
     IN /\ top.i > Len(top.wl)
        /\ frames' = SubSeq(frames, 1, Len(frames) - 1)
        /\ last' = [kind |-> "ret", word |-> top.word, rv |-> 0]
  /\ UNCHANGED <<privates, line, pc, parse_rv, stdout, lines, ncalls, load,
                 deflog, defined, atCall>>

(* parse returns to the host: the loop ends when the line is empty *)
ParseReturn ==
  /\ pc = "parse"
  /\ ~load.active
  /\ frames = <<>>
  /\ Len(line) = 0
  /\ pc' = "idle"
  /\ parse_rv' = TRUE
  /\ last' = [kind |-> "return", word |-> "", rv |-> 0]
  /\ UNCHANGED <<privates, line, frames, stdout, lines, ncalls, load,
                 deflog, defined, atCall>>

(* the host calls RpnCncController::loadFile on a file with the lines f *)
LoadFile(f) ==
  /\ pc = "idle"
  /\ ncalls < MaxCalls
  /\ pc' = "load"
  /\ load' = [active |-> TRUE, lines |-> f, lineNo |-> 0, rv |-> Len(f) > 0]
  /\ ncalls' = ncalls + 1
  /\ stdout' = <<>>
  /\ last' = [kind |-> "load", word |-> "", rv |-> 0]
  /\ UNCHANGED <<privates, line, frames, parse_rv, lines,
                 deflog, defined, atCall>>

(* the loop of loadFile goes on: it calls parse on the next line *)
LoadLine ==
  /\ pc = "load"
  /\ load.lineNo < Len(load.lines)
  /\ load.rv = TRUE
  /\ line' = load.lines[load.lineNo + 1]
  /\ pc' = "parse"
  /\ stdout' = <<>>
  /\ last' = [kind |-> "begin", word |-> "", rv |-> 0]
  /\ UNCHANGED <<privates, frames, parse_rv, lines, ncalls, load,
                 deflog, defined, atCall>>

(* parse returns to loadFile, which keeps the value in rv *)
LoadLineReturn ==
  /\ pc = "parse"
  /\ load.active
  /\ frames = <<>>
  /\ Len(line) = 0
  /\ pc' = "load"
  /\ parse_rv' = TRUE
  /\ load' = [load EXCEPT !.rv = parse_rv', !.lineNo = @ + 1]
  /\ stdout' = IF parse_rv' THEN stdout ELSE Append(stdout, "parse error at")
  /\ last' = [kind |-> "return", word |-> "", rv |-> 0]
  /\ UNCHANGED <<privates, line, frames, lines, ncalls,
                 deflog, defined, atCall>>

(* the loop of loadFile ends and loadFile returns rv *)
LoadReturn ==
  /\ pc = "load"
  /\ ~(load.lineNo < Len(load.lines) /\ load.rv = TRUE)
  /\ pc' = "idle"
  /\ load' = [load EXCEPT !.active = FALSE]
  /\ last' = [kind |-> "loaded", word |-> "", rv |-> 0]
  /\ UNCHANGED <<privates, line, frames, parse_rv, stdout, lines, ncalls,
                 deflog, defined, atCall>>

Next ==
  \/ \E l \in lines : Parse(l)
  \/ ParseWord
  \/ UserWord
  \/ UserReturn
  \/ ParseReturn
  \/ \E f \in FilesOf(lines) : LoadFile(f)
  \/ LoadLine
  \/ LoadLineReturn
  \/ LoadReturn

Spec == Init /\ [][Next]_vars

(***************************************************************************)
(* Properties                                                              *)
(***************************************************************************)

(* the tag of a stack value, read from the alternative it holds *)
ValueTag(v) ==
  IF "n" \in DOMAIN v THEN "Integer"
  ELSE IF "d" \in DOMAIN v THEN "Double"
  ELSE IF "s" \in DOMAIN v THEN "String"
  ELSE "Vec3"

(* whether a value is one a declared parameter type stands for *)
DeclMatches(t, v) ==
  CASE t = st_integer -> ValueTag(v) = "Integer"
    [] t = st_double -> ValueTag(v) = "Double"
    [] t = st_string -> ValueTag(v) = "String"
    [] t = st_vec3 -> ValueTag(v) = "Vec3"
    [] t = st_number -> ValueTag(v) \in {"Integer", "Double"}
    [] t = st_any -> TRUE
    [] OTHER -> FALSE

(* the stack holds the values an alternative declares, the last declared
   parameter being the top of the stack *)
AltHoldsBottomUp(alt, stk) ==
  /\ Len(stk) >= Len(alt)
  /\ \A i \in 1..Len(alt) :
       DeclMatches(alt[i].type, stk[Len(stk) - Len(alt) + i])

(***************************************************************************)
(* C1: a step of the runtime evaluator on a word that is not in the        *)
(* runtime dictionary, or whose validation fails, leaves the stack, both   *)
(* dictionaries and the compilation state as they were; the loop goes on   *)
(* with exactly the text (or the word list) that follows the word.         *)
(***************************************************************************)
C1_ErrorLeavesStateUnchanged ==
  [][last'.kind \in {"notfound", "rejected"} =>
       /\ UNCHANGED <<_stack, _runtimeDictionary, _compiletimeDictionary,
                      _isCompiling, _newWord, _newDefinition>>
       /\ pc' = "parse"
       /\ frames = <<>> => (line' = nextWord(line, " ").buffer /\ frames' = <<>>)
       /\ frames # <<>> =>
            /\ line' = line
            /\ Len(frames') = Len(frames)
            /\ frames'[Len(frames)].i = frames[Len(frames)].i + 1]_vars

(* a word has been rejected on a non-empty stack, with text still to parse *)
C1_Witness ==
  /\ last.kind = "rejected"
  /\ Len(_stack) > 0
  /\ Len(line) > 0

(***************************************************************************)
(* C3: when the body of a built-in word runs, one of its parameter         *)
(* alternatives describes the stack the body finds (as many values as it   *)
(* declares, each of the declared type); DUP, DROP and the Vec3 setters    *)
(* find a non-empty stack, and no step runs into undefined behaviour.      *)
(***************************************************************************)
C3_BodySeesDeclaredStack ==
  [][/\ pc' # "undefined"
     /\ last'.kind = "native" =>
          /\ \E k \in 1..Len(_runtimeDictionary[last'.word].params) :
               AltHoldsBottomUp(_runtimeDictionary[last'.word].params[k], _stack)
          /\ _runtimeDictionary[last'.word].eval
               \in {"dup", "drop", "to_vec3_x", "to_vec3_y", "to_vec3_z"}
               => Len(_stack) >= 1
     /\ last'.kind = "ctnative" =>
          \E k \in 1..Len(_compiletimeDictionary[last'.word].params) :
            AltHoldsBottomUp(_compiletimeDictionary[last'.word].params[k], _stack)
    ]_vars

(* the body of DROP has just run and has emptied the stack *)
C3_Witness ==
  /\ last.kind = "native"
  /\ last.word = "DROP"
  /\ Len(_stack) = 0

(* the elements of a sequence *)
Range(seq) == {seq[i] : i \in 1..Len(seq)}

(* the state in which the outermost user word was entered last, given that
   the runtime dictionary does not change while a user word runs *)
StateAtCall ==
  [Cur EXCEPT !.stack = atCall.stack, !.isCompiling = FALSE,
              !.newWord = "", !.newDefinition = <<>>]

(***************************************************************************)
(* C2: when a user word that had just been defined returns, it leaves the  *)
(* stack that parsing its tokens directly, from the stack it found, would  *)
(* have left (the word not being one of its own tokens).                   *)
(***************************************************************************)
C2_DefinitionEqualsInlining ==
  (/\ last.kind = "ret"
   /\ frames = <<>>
   /\ atCall.fresh
   /\ atCall.word \notin Range(_runtimeDictionary[atCall.word].wl))
  => LET inl == RunParse(StateAtCall,
                         Join(_runtimeDictionary[atCall.word].wl),
                         <<>>, RunFuel)
     IN inl.done /\ inl.m.stack = _stack

(* the index in deflog of the newest definition of a name, 0 if none *)
LastDefIndex(name) ==
  LET at == {i \in 1..Len(deflog) : deflog[i].name = name}
  IN IF at = {} THEN 0 ELSE CHOOSE i \in at : \A j \in at : j <= i

(* the tokens of the newest definition of a name that has one *)
NewestDef(name) == deflog[LastDefIndex(name)].wl

(***************************************************************************)
(* C4: when a running user word A comes, in interpreting mode, to a word B *)
(* that was given a colon-definition after A was defined, the step enters  *)
(* B with the tokens of B's newest definition.                             *)
(***************************************************************************)
C4_LateBinding ==
  [][(/\ pc = "parse"
      /\ frames # <<>>
      /\ frames[Len(frames)].i <= Len(frames[Len(frames)].wl)
      /\ ~_isCompiling
      /\ LET top == frames[Len(frames)]
             w == top.wl[top.i]
         IN /\ ~isdigit(CharAt(w, 1))
            /\ LastDefIndex(w) > LastDefIndex(top.word))
     => \/ pc' = "overflow"
        \/ LET top == frames[Len(frames)]
               w == top.wl[top.i]
           IN /\ last'.kind = "call"
              /\ last'.word = w
              /\ frames'[Len(frames')].word = w
              /\ frames'[Len(frames')].wl = NewestDef(w)]_vars

(* A, defined when B pushed 1, has entered B after B was redefined, and B
   has pushed 2 *)
C4_Witness ==
  /\ Len(frames) = 2
  /\ frames[1].word = "A"
  /\ frames[2].word = "B"
  /\ Len(deflog) = 3
  /\ deflog[1] = [name |-> "B", wl |-> <<"1">>]
  /\ deflog[2] = [name |-> "A", wl |-> <<"B">>]
  /\ deflog[3] = [name |-> "B", wl |-> <<"2">>]
  /\ last.kind = "literal"
  /\ _stack = <<MkInteger(2)>>

(* the three states of the compilation state *)
CompState(isCompiling, newWord) ==
  IF ~isCompiling THEN "Interpreting"
  ELSE IF newWord = "" THEN "AwaitingName"
  ELSE "Collecting"

(* the kinds of step that are a call of eval on a non-empty word *)
EvalKinds ==
  {"literal", "native", "call", "rejected", "notfound",
   "name", "ctnative", "append", "unrecognized"}

(***************************************************************************)
(* C5: the compilation state changes only from Interpreting to             *)
(* AwaitingName on ':', from AwaitingName to Collecting on a non-empty     *)
(* token, and from Collecting to Interpreting on ';'.  Every non-empty     *)
(* token read in AwaitingName becomes the name and changes nothing else;   *)
(* every ';' read in Collecting installs the word; the built-in ':' read   *)
(* in Interpreting always opens a definition.                              *)
(***************************************************************************)
C5_CompilationStateMachine ==
  [][LET st == CompState(_isCompiling, _newWord)
         st2 == CompState(_isCompiling', _newWord')
     IN /\ st2 # st =>
             \/ /\ st = "Interpreting" /\ st2 = "AwaitingName"
                /\ last'.word = ":" /\ last'.kind = "native"
             \/ /\ st = "AwaitingName" /\ st2 = "Collecting"
                /\ last'.kind = "name"
             \/ /\ st = "Collecting" /\ st2 = "Interpreting"
                /\ last'.word = ";" /\ last'.kind = "ctnative"
        /\ (st = "AwaitingName" /\ last'.kind \in EvalKinds) =>
             /\ st2 = "Collecting"
             /\ last'.kind = "name"
             /\ _newWord' = last'.word
             /\ UNCHANGED <<_stack, _runtimeDictionary, _compiletimeDictionary,
                            _isCompiling, _newDefinition, stdout>>
             /\ frames = <<>> => line' = nextWord(line, " ").buffer
             /\ frames # <<>> => line' = line
        /\ (st = "Collecting" /\ last'.kind \in EvalKinds /\ last'.word = ";") =>
             /\ st2 = "Interpreting"
             /\ _newWord \in DOMAIN _runtimeDictionary'
             /\ _runtimeDictionary'[_newWord].wl = _newDefinition
        /\ (/\ st = "Interpreting" /\ last'.kind \in EvalKinds
            /\ last'.word = ":"
            /\ _runtimeDictionary[":"].eval = "colon") =>
             st2 = "AwaitingName"]_vars

(* a word of the compile-time dictionary has been taken as the name *)
C5_Witness ==
  /\ last.kind = "name"
  /\ last.word = ";"
  /\ _newWord = ";"
  /\ CompState(_isCompiling, _newWord) = "Collecting"

(***************************************************************************)
(* C6: ';' stores the new word under the collected name in the runtime     *)
(* dictionary, with the collected tokens in order as its body, and leaves  *)
(* every other entry and the compile-time dictionary alone; a name that    *)
(* had an entry keeps one, so the number of entries stays the same.        *)
(***************************************************************************)
C6_SemicolonInstalls ==
  [][(last'.kind = "ctnative" /\ last'.word = ";") =>
       /\ _compiletimeDictionary' = _compiletimeDictionary
       /\ DOMAIN _runtimeDictionary' = DOMAIN _runtimeDictionary \cup {_newWord}
       /\ _runtimeDictionary'[_newWord].eval = "user_eval"
       /\ _runtimeDictionary'[_newWord].wl = _newDefinition
       /\ \A k \in DOMAIN _runtimeDictionary \ {_newWord} :
            _runtimeDictionary'[k] = _runtimeDictionary[k]
       /\ _newWord \in DOMAIN _runtimeDictionary =>
            Cardinality(DOMAIN _runtimeDictionary')
              = Cardinality(DOMAIN _runtimeDictionary)]_vars

(* ';' has replaced the built-in DUP by a definition with two tokens *)
C6_Witness ==
  /\ last.kind = "ctnative"
  /\ last.word = ";"
  /\ _runtimeDictionary["DUP"].eval = "user_eval"
  /\ _runtimeDictionary["DUP"].wl = <<"1", "DUP">>
  /\ Cardinality(DOMAIN _runtimeDictionary)
       = Cardinality(DOMAIN MapOfInitList(RuntimeInitList))

(***************************************************************************)
(* C7 as stated: a word with parameters is accepted only if one of its     *)
(* signatures [t1..tk] describes the stack top-down, t1 being the type of  *)
(* the topmost value.                                                      *)
(***************************************************************************)
C7_SignatureTopDown ==
  \A w \in DOMAIN _runtimeDictionary :
    (/\ Len(_runtimeDictionary[w].params) > 0
     /\ validate_stack_for_word(_runtimeDictionary[w], _stack))
    => \E k \in 1..Len(_runtimeDictionary[w].params) :
         LET alt == _runtimeDictionary[w].params[k]
         IN /\ Len(_stack) >= Len(alt)
            /\ \A i \in 1..Len(alt) :
                 DeclMatches(alt[i].type, _stack[Len(_stack) - i + 1])

(***************************************************************************)
(* C7 as amended: a word with parameters is accepted only if one of its    *)
(* signatures [t1..tk] describes the stack bottom-up: depth >= k and the   *)
(* value at position k-i+1 from the top matches ti, so tk is the type of   *)
(* the topmost value.                                                      *)
(***************************************************************************)
C7_SignatureBottomUp ==
  \A w \in DOMAIN _runtimeDictionary :
    (/\ Len(_runtimeDictionary[w].params) > 0
     /\ validate_stack_for_word(_runtimeDictionary[w], _stack))
    => \E k \in 1..Len(_runtimeDictionary[w].params) :
         AltHoldsBottomUp(_runtimeDictionary[w].params[k], _stack)

(* STO (val: number, var: string) has run with the string on top *)
C7_Witness ==
  /\ last.kind = "native"
  /\ last.word = "STO"
  /\ Len(_stack) = 2
  /\ ValueTag(_stack[1]) = "Integer"
  /\ ValueTag(_stack[2]) = "String"

(***************************************************************************)
(* C8: a word with parameter alternatives is accepted exactly when one of  *)
(* the alternatives, on its own, describes the stack; an alternative       *)
(* without parameters describes every stack; '+' is accepted exactly when  *)
(* the two topmost values are both numbers or both Vec3s.                  *)
(***************************************************************************)
C8_AnyAlternative ==
  /\ \A w \in DOMAIN _runtimeDictionary :
       Len(_runtimeDictionary[w].params) > 0 =>
         /\ validate_stack_for_word(_runtimeDictionary[w], _stack)
              <=> \E k \in 1..Len(_runtimeDictionary[w].params) :
                    AltHoldsBottomUp(_runtimeDictionary[w].params[k], _stack)
         /\ (\E k \in 1..Len(_runtimeDictionary[w].params) :
               Len(_runtimeDictionary[w].params[k]) = 0)
              => validate_stack_for_word(_runtimeDictionary[w], _stack)
  /\ _runtimeDictionary["+"].eval = "nop" =>
       (validate_stack_for_word(_runtimeDictionary["+"], _stack)
          <=> /\ Len(_stack) >= 2
              /\ LET a == ValueTag(_stack[Len(_stack)])
                     b == ValueTag(_stack[Len(_stack) - 1])
                 IN \/ {a, b} \subseteq {"Integer", "Double"}
                    \/ {a, b} = {"Vec3"})

(* '+' has been accepted by its second alternative, on two Vec3s *)
C8_Witness ==
  /\ last.kind = "native"
  /\ last.word = "+"
  /\ Len(_stack) >= 2
  /\ ValueTag(_stack[Len(_stack)]) = "Vec3"
  /\ ValueTag(_stack[Len(_stack) - 1]) = "Vec3"

(***************************************************************************)
(* C9: for every value on the stack, a concrete parameter type matches it  *)
(* exactly when it is the type of the value, st_number exactly when the    *)
(* value is an integer or a double, st_any always; and the index of the    *)
(* value is one of the four concrete types, never st_number or st_any.     *)
(***************************************************************************)
C9_TagMatching ==
  \A i \in 1..Len(_stack) :
    /\ _stack[i].index \in {st_double, st_integer, st_string, st_vec3}
    /\ _stack[i].index \notin {st_number, st_any}
    /\ \A dt \in datatype_t :
         TypeEq(dt, _stack[i].index) <=> DeclMatches(dt, _stack[i])

(* the stack holds a value of each of the four types *)
C9_Witness ==
  {ValueTag(_stack[i]) : i \in 1..Len(_stack)}
    = {"Integer", "Double", "String", "Vec3"}

(* the line of runtime_eval for a word that is not in the dictionary *)
IsNotFoundLine(msg) ==
  Len(msg) > 11 /\ SubSeq(msg, 1, 11) = "not found '"

(***************************************************************************)
(* C10: a call of parse that came, while not compiling, to a word that is  *)
(* not in the runtime dictionary reports the failure: it does not return   *)
(* the success value.                                                      *)
(***************************************************************************)
C10_UnknownWordIsReported ==
  (/\ last.kind = "return"
   /\ \E i \in 1..Len(stdout) : IsNotFoundLine(stdout[i]))
  => parse_rv = FALSE

(* msg starts with pre *)
HasPrefix(msg, pre) ==
  Len(msg) >= Len(pre) /\ SubSeq(msg, 1, Len(pre)) = pre

(* the running or last call of parse has printed a line that starts with pre *)
Printed(pre) ==
  \E i \in 1..Len(stdout) : HasPrefix(stdout[i], pre)

(* parse has just returned *)
Returned == last.kind = "return"

(***************************************************************************)
(* C11: a word whose validation fails does not run its body (the stack,    *)
(* the dictionaries and the compilation state stay as they are), and the   *)
(* call of parse that met it reports the failure: it does not return the   *)
(* success value.                                                          *)
(***************************************************************************)
C11_RejectedWordIsReported ==
  /\ [][last'.kind = "rejected" =>
          UNCHANGED <<_stack, _runtimeDictionary, _compiletimeDictionary,
                      _isCompiling, _newWord, _newDefinition>>]_vars
  /\ []((Returned /\ Printed("parameters not right for '"))
          => parse_rv = FALSE)

(***************************************************************************)
(* C12: while a definition is collected, a token that is not in the        *)
(* compile-time dictionary is appended to the definition exactly when it   *)
(* starts with a digit or is a key of the runtime dictionary; any other    *)
(* token leaves the definition as it is, prints "unrecognized word at      *)
(* compile time", and the call of parse that met it reports the failure.   *)
(***************************************************************************)
C12_CollectingAppendsKnownTokens ==
  /\ [][(/\ CompState(_isCompiling, _newWord) = "Collecting"
         /\ last'.kind \in EvalKinds
         /\ last'.word \notin DOMAIN _compiletimeDictionary) =>
          IF \/ isdigit(CharAt(last'.word, 1))
             \/ last'.word \in DOMAIN _runtimeDictionary
          THEN _newDefinition' = Append(_newDefinition, last'.word)
          ELSE /\ _newDefinition' = _newDefinition
               /\ stdout' = Append(stdout,
                                   "unrecognized word at compile time: '"
                                     \o last'.word \o "'")]_vars
  /\ []((Returned /\ Printed("unrecognized word at compile time: '"))
          => parse_rv = FALSE)

(***************************************************************************)
(* C13: when eval returns npos for a token (an unknown word while a        *)
(* definition is collected, an unterminated comment), no further token is  *)
(* evaluated: the next step is the return of parse, and parse does not     *)
(* return the success value.                                               *)
(***************************************************************************)
C13_NotFoundStopsTheLine ==
  [][(pc = "parse" /\ last.kind \in EvalKinds /\ last.rv = npos) =>
       /\ last'.kind = "return"
       /\ parse_rv' = FALSE]_vars

(***************************************************************************)
(* C14: a '(' without ')' in the rest of the line discards the rest of the *)
(* line and changes neither the stack nor the runtime dictionary, and the  *)
(* call of parse that met it reports the failure: it does not return the   *)
(* success value.                                                          *)
(***************************************************************************)
C14_UnterminatedCommentIsReported ==
  /\ [][(/\ last'.word = "("
         /\ last'.kind \in {"native", "ctnative"}
         /\ last'.rv = npos) =>
          /\ line' = ""
          /\ UNCHANGED <<_stack, _runtimeDictionary>>]_vars
  /\ []((Returned /\ Printed("parse error in comment"))
          => parse_rv = FALSE)

(***************************************************************************)
(* C15: a '."' without closing '"' in the rest of the line pushes nothing, *)
(* discards the rest of the line, and the call of parse that met it        *)
(* reports the failure: it does not return the success value.              *)
(***************************************************************************)
C15_UnterminatedStringIsReported ==
  /\ [][(/\ last'.word = ".\""
         /\ last'.kind = "native"
         /\ frames = <<>>
         /\ Find(nextWord(line, " ").buffer, "\"") = npos) =>
          /\ line' = ""
          /\ UNCHANGED _stack]_vars
  /\ []((Returned /\ Printed("parse error in string literal"))
          => parse_rv = FALSE)

(***************************************************************************)
(* C16: while interpreting, the word '."' read from a line that holds a    *)
(* closing '"' pushes one String, the characters between the space after   *)
(* the token and the first '"' (spaces included), leaves the values below  *)
(* it and everything else unchanged, and the line goes on after that '"'.  *)
(***************************************************************************)
C16_StringLiteral ==
  [][(/\ last'.word = ".\""
      /\ last'.kind = "native"
      /\ frames = <<>>
      /\ ~_isCompiling
      /\ Positions(SubSeq(line, 4, Len(line)), "\"") # {}) =>
       LET text == SubSeq(line, 4, Len(line))
           q == Least(Positions(text, "\""))
       IN /\ SubSeq(line, 1, 3) = ".\" "
          /\ _stack' = Append(_stack, [index |-> st_string,
                                       s |-> SubSeq(text, 1, q - 1)])
          /\ line' = SubSeq(text, q + 1, Len(text))
          /\ UNCHANGED <<_runtimeDictionary, _compiletimeDictionary,
                         _isCompiling, _newWord, _newDefinition>>]_vars

(* '."' has pushed a text with a space in it above two other values *)
C16_Witness ==
  /\ last.word = ".\""
  /\ last.kind = "native"
  /\ Len(_stack) = 3
  /\ _stack[3] = [index |-> st_string, s |-> "a b"]
  /\ _stack[2] = [index |-> st_integer, n |-> 1]
  /\ line = " 1"

(***************************************************************************)
(* C17: while interpreting and while a definition is collected, the word   *)
(* '(' read from a line that holds a ')' changes neither the stack, the    *)
(* dictionaries, the compilation state nor the pending definition, and the *)
(* line goes on after the first ')' that follows the token.                *)
(***************************************************************************)
C17_Comment ==
  [][(/\ last'.word = "("
      /\ last'.kind \in {"native", "ctnative"}
      /\ frames = <<>>
      /\ Positions(SubSeq(line, 3, Len(line)), ")") # {}) =>
       LET text == SubSeq(line, 3, Len(line))
           q == Least(Positions(text, ")"))
       IN /\ SubSeq(line, 1, 2) = "( "
          /\ CompState(_isCompiling, _newWord) \in {"Interpreting", "Collecting"}
          /\ line' = SubSeq(text, q + 1, Len(text))
          /\ UNCHANGED <<_stack, _runtimeDictionary, _compiletimeDictionary,
                         _isCompiling, _newWord, _newDefinition>>]_vars

(* a comment with a '(' inside has ended at the first ')' *)
C17_Witness ==
  /\ last.word = "("
  /\ last.kind = "native"
  /\ last.rv # npos
  /\ line = " 1 )"

(* a comment has been skipped while a definition is collected *)
C17_WitnessCollecting ==
  /\ last.word = "("
  /\ last.kind = "ctnative"
  /\ last.rv # npos
  /\ _newWord = "FOO"
  /\ line = " 1 ;"

(***************************************************************************)
(* C18: while interpreting, a token that starts with a digit pushes one    *)
(* value and changes nothing else: a Double if the token contains '.',     *)
(* else an Integer read in base 16 after 0x, in base 8 after a leading 0,  *)
(* else in base 10; 0x1234 pushes Integer 4660.                            *)
(***************************************************************************)
C18_NumericLiteral ==
  [][(last'.kind \in EvalKinds
      /\ ~_isCompiling
      /\ isdigit(CharAt(last'.word, 1))) =>
       LET w == last'.word
           top == _stack'[Len(_stack')]
       IN /\ last'.kind = "literal"
          /\ Len(_stack') = Len(_stack) + 1
          /\ SubSeq(_stack', 1, Len(_stack)) = _stack
          /\ UNCHANGED <<_runtimeDictionary, _compiletimeDictionary,
                         _isCompiling, _newWord, _newDefinition, stdout>>
          /\ IF Positions(w, ".") # {}
             THEN top.index = st_double
             ELSE top.index = st_integer
          /\ w = "0x1234" => top = [index |-> st_integer, n |-> 4660]
          /\ w = "010" => top = [index |-> st_integer, n |-> 8]
          /\ w = "10" => top = [index |-> st_integer, n |-> 10]
          /\ w = "1" => top = [index |-> st_integer, n |-> 1]
          /\ w = "2.5" => top = [index |-> st_double,
                                 d |-> [nan |-> FALSE, m |-> 25, e |-> 1]]
          /\ w = "1.5e3" => top = [index |-> st_double,
                                   d |-> [nan |-> FALSE, m |-> 1500, e |-> 0]]
          /\ w = "0x.8" => top = [index |-> st_double,
                                  d |-> [nan |-> FALSE, m |-> 5, e |-> 1]]]_vars

(* 0x1234 has been pushed as Integer 4660 above an octal 010 *)
C18_Witness ==
  /\ last.kind = "literal"
  /\ last.word = "0x1234"
  /\ Len(_stack) >= 2
  /\ _stack[Len(_stack)] = [index |-> st_integer, n |-> 4660]
  /\ _stack[Len(_stack) - 1] = [index |-> st_integer, n |-> 8]

(* 1.5e3 has been pushed as the Double 1500 and the hexadecimal 0x.8 as
   the Double 0.5 above it *)
C18_WitnessExponent ==
  /\ last.kind = "literal"
  /\ last.word = "0x.8"
  /\ _stack = <<MkDouble([nan |-> FALSE, m |-> 1500, e |-> 0]),
                MkDouble([nan |-> FALSE, m |-> 5, e |-> 1])>>

(* strtol or strtod, as runtime_eval calls them, would consume all of w *)
WholeWordConverted(w) ==
  IF Positions(w, ".") # {}
  THEN strtod_end(w) = Len(w)
  ELSE strtol_end(w) = Len(w)

(***************************************************************************)
(* C19: a token that starts with a digit but is not a number in its base   *)
(* (12abc, 09) pushes nothing onto the stack.                              *)
(***************************************************************************)
C19_MalformedLiteralPushesNothing ==
  [][(/\ last'.kind \in EvalKinds
      /\ ~_isCompiling
      /\ isdigit(CharAt(last'.word, 1))
      /\ ~WholeWordConverted(last'.word)) =>
       _stack' = _stack]_vars

(* the first words of the lines the evaluator prints when a token fails *)
FailureLines ==
  {"not found '", "parameters not right for '",
   "unrecognized word at compile time: '", "parse error in comment",
   "parse error in string literal"}

(***************************************************************************)
(* C20: parse returns the success value only if every token of the line    *)
(* succeeded: a call in which a token failed (unknown word, rejected       *)
(* parameters, unrecognized word in a definition, unterminated comment or  *)
(* string) returns a value other than success.                             *)
(***************************************************************************)
C20_OkOnlyIfEveryTokenSucceeded ==
  (Returned /\ parse_rv = TRUE) => \A pre \in FailureLines : ~Printed(pre)

(***************************************************************************)
(* C21: loadFile hands the lines of the file to parse in file order, and   *)
(* after a line in which a token failed it evaluates no further line: it   *)
(* returns, with a result other than success.                              *)
(***************************************************************************)
C21_LoadStopsAtFailingLine ==
  /\ [][(pc = "load" /\ pc' = "parse") =>
          line' = load.lines[load.lineNo + 1]]_vars
  /\ [][(pc = "parse" /\ pc' = "load") => load'.lineNo = load.lineNo + 1]_vars
  /\ [][(/\ pc = "load"
         /\ Returned
         /\ \E pre \in FailureLines : Printed(pre)) =>
          /\ pc' = "idle"
          /\ load'.rv = FALSE]_vars

(* the call parse(l) from state m ends inside a comment: parse_comment
   finds no ')' on the line *)
CommentLeftOpen(m, l) ==
  LET out == RunOut(m, l, <<>>, RunFuel)
  IN \E i \in 1..Len(out) : HasPrefix(out[i], "parse error in comment")

(***************************************************************************)
(* C22 as stated: the steps that begin and end a call of parse leave the   *)
(* stack, the dictionaries and the compilation state as they are, so a     *)
(* definition left open by one call is continued by the next; and any line *)
(* that leaves a definition open, followed by a second call, gives the     *)
(* same state as one call with the tokens of both lines.                   *)
(***************************************************************************)
C22_SplitEqualsJoined ==
  /\ [][(pc \in {"idle", "load"} \/ pc' \in {"idle", "load"}) =>
          UNCHANGED <<_stack, _runtimeDictionary, _compiletimeDictionary,
                      _isCompiling, _newWord, _newDefinition>>]_vars
  /\ []((pc = "idle" /\ ~_isCompiling) =>
          \A l1 \in lines :
            LET first == RunParse(Cur, l1, <<>>, RunFuel)
            IN (first.done /\ first.m.isCompiling) =>
                 \A l2 \in lines :
                   LET split == RunParse(first.m, l2, <<>>, RunFuel)
                       joined == RunParse(Cur, l1 \o " " \o l2, <<>>, RunFuel)
                   IN /\ split.done
                      /\ joined.done
                      /\ split.m = joined.m)

(***************************************************************************)
(* C22 as amended: the steps that begin and end a call of parse leave the  *)
(* stack, the dictionaries and the compilation state as they are, so a     *)
(* definition left open by one call is continued by the next; and a line   *)
(* that leaves a definition open without ending inside a comment,          *)
(* followed by a second call, gives the same state as one call with the    *)
(* tokens of both lines.  A line that ends inside a comment leaves the     *)
(* definition open as well, with the tokens collected before the comment.  *)
(***************************************************************************)
C22_DefinitionSpansCalls ==
  /\ [][(pc \in {"idle", "load"} \/ pc' \in {"idle", "load"}) =>
          UNCHANGED <<_stack, _runtimeDictionary, _compiletimeDictionary,
                      _isCompiling, _newWord, _newDefinition>>]_vars
  /\ []((pc = "idle" /\ ~_isCompiling) =>
          \A l1 \in lines :
            LET first == RunParse(Cur, l1, <<>>, RunFuel)
            IN (first.done /\ first.m.isCompiling /\ ~CommentLeftOpen(Cur, l1)) =>
                 \A l2 \in lines :
                   LET split == RunParse(first.m, l2, <<>>, RunFuel)
                       joined == RunParse(Cur, l1 \o " " \o l2, <<>>, RunFuel)
                   IN /\ split.done
                      /\ joined.done
                      /\ split.m = joined.m)
  /\ [][(/\ _isCompiling
         /\ _newWord # ""
         /\ last'.kind = "ctnative"
         /\ last'.word = "("
         /\ last'.rv = npos) =>
          /\ line' = ""
          /\ _isCompiling'
          /\ _newWord' = _newWord
          /\ _newDefinition' = _newDefinition]_vars

(* ';' in a second call has closed the definition opened by the first *)
C22_Witness ==
  /\ last.kind = "ctnative"
  /\ last.word = ";"
  /\ "FOO" \in DOMAIN _runtimeDictionary
  /\ _runtimeDictionary["FOO"].wl = <<"2X", "DUP">>
  /\ ~_isCompiling

(* the first call has left the definition of FOO open inside a comment,
   and the second call has added the token 1 to it before its own
   unterminated comment *)
C22_WitnessComment ==
  /\ lines = ScnComment
  /\ _isCompiling
  /\ _newWord = "FOO"
  /\ _newDefinition = <<"1">>
  /\ last.kind = "ctnative"
  /\ last.word = "("
  /\ last.rv = npos
  /\ ncalls = 2

(* a first call with a closed comment has left the definition of FOO open
   with the token 1, and a second call has begun *)
C22_WitnessClosedComment ==
  /\ lines = ScnComment
  /\ _isCompiling
  /\ _newWord = "FOO"
  /\ _newDefinition = <<"1">>
  /\ last.kind = "begin"
  /\ ncalls = 2
  /\ stdout = <<>>
  /\ deflog = <<>>
  /\ _stack = <<>>

(* a value of each alternative of the variant *)
SampleValues ==
  {MkInteger(7), MkDouble(NormD(1232, 2)), MkString("a b"),
   Vec3(NormD(1, 0), NaN, NaN)}

(***************************************************************************)
(* C23: on every stack the interpreter reaches, stack_push of a value of   *)
(* any alternative makes the stack one deeper, and stack_pop after it      *)
(* returns that value and leaves the stack as it was before the push.      *)
(***************************************************************************)
C23_PushPopRoundTrip ==
  \A v \in SampleValues \cup Range(_stack) :
    LET pushed == stack_push(_stack, v)
        popped == stack_pop(pushed)
    IN /\ Len(pushed) = Len(_stack) + 1
       /\ popped.rv = v
       /\ popped.stack = _stack

(* 1 and 2.5 were pushed, then a third value, and DROP has popped it *)
C23_Witness ==
  /\ last.word = "DROP"
  /\ last.kind = "native"
  /\ _stack = <<[index |-> st_integer, n |-> 1],
                [index |-> st_double, d |-> [nan |-> FALSE, m |-> 25, e |-> 1]]>>

(***************************************************************************)
(* C24: while interpreting, the built-in DUP on a stack of depth >= 1      *)
(* makes the stack one deeper, the new top equals the previous top and the *)
(* previous values stay in place; on an empty stack DUP is rejected and    *)
(* the stack stays empty.                                                  *)
(***************************************************************************)
C24_Dup ==
  [][(/\ last'.kind \in EvalKinds
      /\ last'.word = "DUP"
      /\ ~_isCompiling
      /\ _runtimeDictionary["DUP"].eval = "dup") =>
       IF Len(_stack) >= 1
       THEN /\ last'.kind = "native"
            /\ Len(_stack') = Len(_stack) + 1
            /\ _stack'[Len(_stack')] = _stack[Len(_stack)]
            /\ SubSeq(_stack', 1, Len(_stack)) = _stack
       ELSE /\ last'.kind = "rejected"
            /\ _stack' = <<>>]_vars

(* DUP has copied the 2.5 on top of <<1, 2.5>> *)
C24_Witness ==
  /\ last.word = "DUP"
  /\ last.kind = "native"
  /\ _stack = <<[index |-> st_integer, n |-> 1],
                [index |-> st_double, d |-> [nan |-> FALSE, m |-> 25, e |-> 1]],
                [index |-> st_double, d |-> [nan |-> FALSE, m |-> 25, e |-> 1]]>>

(* DUP has been rejected on the empty stack *)
C24_WitnessEmpty ==
  /\ last.word = "DUP"
  /\ last.kind = "rejected"
  /\ _stack = <<>>

(* the names of the built-in bodies of ->{X}, ->{Y} and ->{Z} *)
SetterBodies == {"to_vec3_x", "to_vec3_y", "to_vec3_z"}

(***************************************************************************)
(* C25: while interpreting, a component setter on a stack whose top is an  *)
(* Integer or a Double replaces that one value by a Vec3 that holds it in  *)
(* the named component and NaN in the two others, the values below staying *)
(* in place; on any other stack the setter is rejected and the stack is    *)
(* unchanged.                                                              *)
(***************************************************************************)
C25_ComponentSetters ==
  [][(/\ last'.kind \in EvalKinds
      /\ last'.word \in {"->{X}", "->{Y}", "->{Z}"}
      /\ ~_isCompiling
      /\ _runtimeDictionary[last'.word].eval \in SetterBodies) =>
       LET n == Len(_stack)
           w == last'.word
       IN IF n >= 1 /\ _stack[n].index \in {st_integer, st_double}
          THEN LET val == IF _stack[n].index = st_integer
                          THEN [nan |-> FALSE, m |-> _stack[n].n, e |-> 0]
                          ELSE _stack[n].d
                   nan == [nan |-> TRUE, m |-> 0, e |-> 0]
               IN /\ last'.kind = "native"
                  /\ Len(_stack') = n
                  /\ SubSeq(_stack', 1, n - 1) = SubSeq(_stack, 1, n - 1)
                  /\ _stack'[n] =
                       [index |-> st_vec3,
                        x |-> IF w = "->{X}" THEN val ELSE nan,
                        y |-> IF w = "->{Y}" THEN val ELSE nan,
                        z |-> IF w = "->{Z}" THEN val ELSE nan]
          ELSE /\ last'.kind = "rejected"
               /\ _stack' = _stack]_vars

(* ->{Z} has turned the 2.5 above an Integer into a Vec3 *)
C25_Witness ==
  /\ last.word = "->{Z}"
  /\ last.kind = "native"
  /\ _stack = <<[index |-> st_integer, n |-> 1],
                [index |-> st_vec3,
                 x |-> [nan |-> TRUE, m |-> 0, e |-> 0],
                 y |-> [nan |-> TRUE, m |-> 0, e |-> 0],
                 z |-> [nan |-> FALSE, m |-> 25, e |-> 1]]>>

(* ->{Y} has been rejected with a String on top *)
C25_WitnessRejected ==
  /\ last.word = "->{Y}"
  /\ last.kind = "rejected"
  /\ Len(_stack) >= 1
  /\ _stack[Len(_stack)].index = st_string

(***************************************************************************)
(* C26: while interpreting, the built-in '+' on a stack whose two topmost  *)
(* values are the Integers x (below) and y (top) replaces them by the one  *)
(* Integer x+y and leaves the values below in place.                       *)
(***************************************************************************)
C26_AddIntegers ==
  [][(/\ last'.kind \in EvalKinds
      /\ last'.word = "+"
      /\ ~_isCompiling
      /\ _runtimeDictionary["+"].eval # "user_eval"
      /\ Len(_stack) >= 2
      /\ _stack[Len(_stack)].index = st_integer
      /\ _stack[Len(_stack) - 1].index = st_integer) =>
       LET n == Len(_stack)
       IN _stack' = Append(SubSeq(_stack, 1, n - 2),
                           [index |-> st_integer,
                            n |-> _stack[n - 1].n + _stack[n].n])]_vars

(***************************************************************************)
(* C27: right after construction the runtime dictionary has an entry for   *)
(* each of '+', '-', '*' and '/', and each of them is accepted on a stack  *)
(* whose two topmost values are numbers.                                   *)
(***************************************************************************)
C27_FourArithmeticWords ==
  last.kind = "init" =>
    \A w \in {"+", "-", "*", "/"} :
      /\ w \in DOMAIN _runtimeDictionary
      /\ validate_stack_for_word(_runtimeDictionary[w],
                                 <<MkInteger(1), MkDouble(NormD(25, 1))>>)

(***************************************************************************)
(* C28: while interpreting, ROLLU rotates the whole stack by one position, *)
(* the bottom value becoming the top (10 9 .. 1 ROLLU ROLLU leaves         *)
(* 9 10 1 .. 8 top-down), so the depth and the values are preserved.       *)
(***************************************************************************)
C28_RollU ==
  [][(/\ last'.kind \in EvalKinds
      /\ last'.word = "ROLLU"
      /\ ~_isCompiling
      /\ Len(_stack) >= 1) =>
       _stack' = Append(Tail(_stack), Head(_stack))]_vars

(***************************************************************************)
(* C29: while interpreting, the built-in OVER on a stack of depth >= 2     *)
(* pushes a copy of the second value from the top and leaves the previous  *)
(* values in place.                                                        *)
(***************************************************************************)
C29_Over ==
  [][(/\ last'.kind \in EvalKinds
      /\ last'.word = "OVER"
      /\ ~_isCompiling
      /\ _runtimeDictionary["OVER"].eval # "user_eval"
      /\ Len(_stack) >= 2) =>
       _stack' = Append(_stack, _stack[Len(_stack) - 1])]_vars

(* the compilation state as the constructor and ';' leave it *)
CompilationReset ==
  /\ _isCompiling = FALSE
  /\ _newWord = ""
  /\ _newDefinition = <<>>

(***************************************************************************)
(* C30: in every reachable state, when _isCompiling is false _newWord and  *)
(* _newDefinition are empty, and when _newWord is empty _newDefinition is  *)
(* empty; the three are reset after construction and right after every     *)
(* ';' that closes a definition.                                           *)
(***************************************************************************)
C30_CompilationStateInvariant ==
  /\ ~_isCompiling => (_newWord = "" /\ _newDefinition = <<>>)
  /\ _newWord = "" => _newDefinition = <<>>
  /\ last.kind = "init" => CompilationReset
  /\ (last.kind = "ctnative" /\ last.word = ";") => CompilationReset

(* ';' has closed a definition with two tokens and reset the state *)
C30_Witness ==
  /\ last.kind = "ctnative"
  /\ last.word = ";"
  /\ deflog # <<>>
  /\ deflog[Len(deflog)] = [name |-> "FOO", wl |-> <<"1", "DUP">>]
  /\ CompilationReset

(* the branches of compiletime_eval *)
CompileKinds == {"name", "ctnative", "append", "unrecognized"}

(***************************************************************************)
(* C31: a running user word hands its stored tokens to the evaluator in    *)
(* stored order, each with an empty remainder, and each of them is         *)
(* evaluated by the runtime evaluator: no token of a word list is adopted  *)
(* as the name of a definition or appended to a pending definition.        *)
(***************************************************************************)
C31_UserWordUsesRuntimeEvaluator ==
  [][(frames # <<>> /\ last'.kind \in EvalKinds) =>
       LET top == frames[Len(frames)]
       IN /\ last'.word = top.wl[top.i]
          /\ frames'[Len(frames)].i = top.i + 1
          /\ line' = line
          /\ last'.kind \notin CompileKinds
          /\ _newWord' = _newWord
          /\ _newDefinition' = _newDefinition]_vars

(***************************************************************************)
(* C32: in every reachable state the compile-time dictionary holds exactly *)
(* the two words ';' and '(' with the entries the constructor gave them;   *)
(* no step adds, removes or replaces an entry of it.                       *)
(***************************************************************************)
C32_CompiletimeDictionaryFixed ==
  /\ [](DOMAIN _compiletimeDictionary = {";", "("})
  /\ [](_compiletimeDictionary = MapOfInitList(CompiletimeInitList))
  /\ [](/\ _compiletimeDictionary[";"].eval = "semicolon"
        /\ _compiletimeDictionary["("].eval = "parse_comment")
  /\ [][_compiletimeDictionary' = _compiletimeDictionary]_vars

(* a user word named ';' has been installed in the runtime dictionary and
   a definition of it has been closed a second time *)
C32_Witness ==
  /\ ";" \in DOMAIN _runtimeDictionary
  /\ _runtimeDictionary[";"].eval = "user_eval"
  /\ DOMAIN _compiletimeDictionary = {";", "("}
  /\ _compiletimeDictionary[";"].eval = "semicolon"
  /\ Len(deflog) >= 2

(* the delimiters nextWord is called with: by parse, by parse_comment and
   by the body of '."' *)
Delims == {" ", ")", "\""}

(* the claim of C33 for one buffer and one delimiter *)
NextWordSplits(b, d) ==
  LET r == nextWord(b, d)
      hits == Positions(b, d)
  IN /\ IF hits # {}
        THEN LET p == Least(hits) - 1
             IN /\ r.p1 = p
                /\ Len(r.word) = p
                /\ r.word = SubSeq(b, 1, p)
                /\ Len(r.buffer) = Len(b) - p - 1
                /\ r.word \o d \o r.buffer = b
        ELSE /\ r.word = b
             /\ r.buffer = ""
             /\ r.p1 = npos
     /\ r.p1 = npos <=> hits = {}
     /\ Positions(r.word, d) = {}
     /\ Len(b) > 0 => Len(r.buffer) < Len(b)

(***************************************************************************)
(* C33: for every buffer parse holds and every delimiter, nextWord splits  *)
(* the buffer at the first delimiter: the word is what precedes it, the    *)
(* remainder what follows it and the position is returned, so that word,   *)
(* delimiter and remainder give the buffer back; without a delimiter the   *)
(* word is the buffer, the remainder is empty and npos is returned.  The   *)
(* word holds no delimiter and the remainder is shorter than a non-empty   *)
(* buffer.  Each round of parse evaluates the word so split off.           *)
(***************************************************************************)
C33_NextWord ==
  /\ [](\A b \in {line} \cup lines : \A d \in Delims : NextWordSplits(b, d))
  /\ [][(pc = "parse" /\ frames = <<>> /\ last'.kind \in EvalKinds \cup {"empty"}) =>
          /\ last'.word = nextWord(line, " ").word
          /\ Len(line') <= Len(nextWord(line, " ").buffer)
          /\ Len(line') < Len(line)]_vars

(* the body of '."' has split a b off the buffer at the quote, position 3,
   and has left the text after the quote *)
C33_Witness ==
  /\ last.word = ".\""
  /\ last.kind = "native"
  /\ last.rv = 3
  /\ line = " 1"
  /\ _stack # <<>>
  /\ _stack[Len(_stack)] = MkString("a b")

(***************************************************************************)
(* C34: every call of parse comes to its end: no call exhausts the call    *)
(* stack by a recursion of user words that never ends and none runs into   *)
(* undefined behaviour, and when a call returns its line buffer is empty.  *)
(***************************************************************************)
C34_ParseTerminates ==
  /\ [](pc \notin {"overflow", "undefined"})
  /\ [][(pc = "parse" /\ pc' \in {"idle", "load"}) =>
          (line = "" /\ line' = "" /\ frames = <<>>)]_vars

(***************************************************************************)
(* C35: a ':' evaluated while a definition is being collected (the name is *)
(* known) is appended to the pending definition: the interpreter stays in  *)
(* compilation with the same name, and the stack and the dictionaries stay *)
(* as they are; the ';' that follows installs one word, the one of that    *)
(* name, with the tokens collected.                                        *)
(***************************************************************************)
C35_ColonWhileCollecting ==
  /\ [][(/\ last'.kind \in EvalKinds
         /\ last'.word = ":"
         /\ _isCompiling
         /\ _newWord # "") =>
          /\ last'.kind = "append"
          /\ _isCompiling'
          /\ _newWord' = _newWord
          /\ _newDefinition' = Append(_newDefinition, ":")
          /\ UNCHANGED <<_stack, _runtimeDictionary,
                         _compiletimeDictionary>>]_vars
  /\ [][(last'.kind = "ctnative" /\ last'.word = ";") =>
          /\ DOMAIN _runtimeDictionary' = DOMAIN _runtimeDictionary \cup {_newWord}
          /\ \A k \in DOMAIN _runtimeDictionary :
               k # _newWord => _runtimeDictionary'[k] = _runtimeDictionary[k]
          /\ _runtimeDictionary'[_newWord].eval = "user_eval"
          /\ _runtimeDictionary'[_newWord].wl = _newDefinition]_vars

(* ';' has closed the definition of FOO whose tokens include a ':'; no
   word DUP was defined on the way *)
C35_Witness ==
  /\ last.kind = "ctnative"
  /\ last.word = ";"
  /\ "FOO" \in DOMAIN _runtimeDictionary
  /\ _runtimeDictionary["FOO"].wl = <<":", "DUP", "1">>
  /\ _runtimeDictionary["DUP"].eval = "dup"
  /\ Len(deflog) = 1

(***************************************************************************)
(* C36: no step taken while _isCompiling is true changes the stack, and    *)
(* neither does the ':' that sets the flag nor the ';' that clears it:     *)
(* from the ':' that opens a definition up to and including the ';' that   *)
(* closes it the stack stays exactly as it was.                            *)
(***************************************************************************)
C36_CompilingLeavesStack ==
  [][(_isCompiling \/ _isCompiling') => _stack' = _stack]_vars

(* a definition with a comment and a number has been closed above a stack
   that held one value when it was opened, and still holds just that *)
C36_Witness ==
  /\ last.kind = "ctnative"
  /\ last.word = ";"
  /\ line = ""
  /\ lines = ScnComment
  /\ deflog # <<>>
  /\ deflog[Len(deflog)] = [name |-> "FOO", wl |-> <<"1">>]
  /\ _stack = <<MkInteger(1)>>

(***************************************************************************)
(* C37: while interpreting, a token that starts with a digit pushes one    *)
(* numeric literal and nothing else happens, whether or not the runtime    *)
(* dictionary has a word of that name: no user word is entered, nothing is *)
(* printed and the dictionaries stay as they are.  After ': 2X DUP ;' the  *)
(* token 2X pushes the Integer 2.                                          *)
(***************************************************************************)
C37_DigitTokenIsLiteral ==
  [][(/\ last'.kind \in EvalKinds
      /\ ~_isCompiling
      /\ isdigit(CharAt(last'.word, 1))) =>
       /\ last'.kind = "literal"
       /\ Len(frames') = Len(frames)
       /\ Len(_stack') = Len(_stack) + 1
       /\ SubSeq(_stack', 1, Len(_stack)) = _stack
       /\ _stack'[Len(_stack')].index \in {st_integer, st_double}
       /\ last'.word = "2X" => _stack'[Len(_stack')] = MkInteger(2)
       /\ UNCHANGED <<_runtimeDictionary, _compiletimeDictionary,
                      _isCompiling, _newWord, _newDefinition, stdout>>]_vars

(* with the user word 2X = [DUP] installed, the token 2X has pushed the
   Integer 2 onto the empty stack *)
C37_Witness ==
  /\ "2X" \in DOMAIN _runtimeDictionary
  /\ _runtimeDictionary["2X"].eval = "user_eval"
  /\ _runtimeDictionary["2X"].wl = <<"DUP">>
  /\ last.kind = "literal"
  /\ last.word = "2X"
  /\ _stack = <<MkInteger(2)>>

(* the same when the token 2X comes from the word list of FOO *)
C37_WitnessStored ==
  /\ "2X" \in DOMAIN _runtimeDictionary
  /\ frames # <<>>
  /\ frames[Len(frames)].word = "FOO"
  /\ last.kind = "literal"
  /\ last.word = "2X"
  /\ _stack = <<MkInteger(2)>>

(* the word lists of the user words of the runtime dictionary *)
WordLists ==
  {_runtimeDictionary[k].wl : k \in DOMAIN _runtimeDictionary}

(***************************************************************************)
(* C38: an empty token, as leading or consecutive spaces produce it, is    *)
(* ignored in both modes: the round of parse that meets it changes neither *)
(* the stack, the dictionaries nor the compilation state and prints        *)
(* nothing.  The empty string is never adopted as the name of a            *)
(* definition, is in no pending definition and in no word list, and is no  *)
(* key of the runtime dictionary.                                          *)
(***************************************************************************)
C38_EmptyTokensIgnored ==
  /\ [][(/\ pc = "parse"
         /\ frames = <<>>
         /\ Len(line) > 0
         /\ nextWord(line, " ").word = ""
         /\ line' # line) =>
          /\ last'.kind = "empty"
          /\ line' = nextWord(line, " ").buffer
          /\ UNCHANGED <<_stack, _runtimeDictionary, _compiletimeDictionary,
                         _isCompiling, _newWord, _newDefinition, stdout,
                         frames>>]_vars
  /\ [][last'.kind = "name" => (last'.word # "" /\ _newWord' = last'.word)]_vars
  /\ []("" \notin DOMAIN _runtimeDictionary)
  /\ []("" \notin Range(_newDefinition))
  /\ [](\A wl \in WordLists : "" \notin Range(wl))

(* the empty token between the name FOO and the first token of its body
   has been passed over *)
C38_Witness ==
  /\ last.kind = "empty"
  /\ _isCompiling
  /\ _newWord = "FOO"
  /\ _newDefinition = <<>>
  /\ line = "1 ;"

(* the empty token between ':' and the name has been passed over: the
   name is still to come *)
C38_WitnessAwaitingName ==
  /\ last.kind = "empty"
  /\ _isCompiling
  /\ _newWord = ""
  /\ line = "FOO  1 ;"

(* the empty token between 1 and DUP has been passed over while
   interpreting *)
C38_WitnessInterpreting ==
  /\ last.kind = "empty"
  /\ ~_isCompiling
  /\ _stack = <<MkInteger(1)>>
  /\ line = "DUP"

====
